---- MODULE Spec2Model ----
(***************************************************************************)
(* A model of the tree-walking evaluator of cods (cods/src/eval/mod.rs,    *)
(* cods/src/eval/val.rs).                                                  *)
(*                                                                         *)
(* Numbers.  The machine types are modelled at a reduced width and every   *)
(* operator is written for an arbitrary width, so that the whole range     *)
(* can be enumerated: i128 is a two's complement integer of IntBits bits,  *)
(* u32/i32 are integers of ExpBits bits, and f64 is a binary floating      *)
(* point format with a MantBits bit significand, a smallest step of        *)
(* 2^-FracBits, round-to-nearest-even, infinities and NaN (no negative     *)
(* zero).  As for the real types, the significand is narrower than the     *)
(* integer (53 < 127), so the largest integer is not a float.              *)
(***************************************************************************)
EXTENDS Integers, Sequences, FiniteSets, TLC

IntBits == 6
ExpBits == 4
MantBits == 3
FracBits == 2

RECURSIVE Pow2(_)
Pow2(n) == IF n <= 0 THEN 1 ELSE 2 * Pow2(n - 1)

Abs(x) == IF x < 0 THEN -x ELSE x
Sgn(x) == IF x < 0 THEN -1 ELSE IF x > 0 THEN 1 ELSE 0

\* i128::MIN, i128::MAX, u32::MAX, i32::MIN at the model's widths
IntMin == -Pow2(IntBits - 1)
IntMax == Pow2(IntBits - 1) - 1
U32Max == Pow2(ExpBits) - 1
I32Min == -Pow2(ExpBits - 1)
I32Max == Pow2(ExpBits - 1) - 1
I128 == IntMin..IntMax
InI128(x) == IntMin <= x /\ x <= IntMax

\* Option<T>
None == [some |-> FALSE]
Some(x) == [some |-> TRUE, v |-> x]

\* Two's complement wrap-around of a mathematical integer to the i128 width
Wrap(x) == ((x - IntMin) % Pow2(IntBits)) + IntMin

\* i128::checked_add / checked_sub / checked_mul of the standard library
\* (i128_wrapping_add: wrapping_add in the place of checked_add)
i128_wrapping_add(a, b) == Some(Wrap(a + b))
i128_checked_add(a, b) == IF InI128(a + b) THEN Some(a + b) ELSE None
i128_checked_sub(a, b) == IF InI128(a - b) THEN Some(a - b) ELSE None
i128_checked_mul(a, b) == IF InI128(a * b) THEN Some(a * b) ELSE None

\* The `%` and `/` of Rust on integers truncate towards zero (b # 0)
RustRem(a, b) == Sgn(a) * (Abs(a) % Abs(b))
RustDiv(a, b) == Sgn(a) * Sgn(b) * (Abs(a) \div Abs(b))

(***************************************************************************)
(* f64.  A float is [k, q]: k is "fin", "inf", "ninf" or "nan"; a finite   *)
(* float has the value q / FUnit.                                          *)
(***************************************************************************)
FUnit == Pow2(FracBits)
FMaxQ == (Pow2(MantBits) - 1) * Pow2(IntBits + 1)

Fin(q) == [k |-> "fin", q |-> q]
FInf == [k |-> "inf", q |-> 0]
FNegInf == [k |-> "ninf", q |-> 0]
FNaN == [k |-> "nan", q |-> 0]

RoundHalfEven(n, d) ==
    LET fl == n \div d
        r == n % d
    IN  IF 2 * r < d THEN fl
        ELSE IF 2 * r > d THEN fl + 1
        ELSE IF fl % 2 = 0 THEN fl ELSE fl + 1

RECURSIVE RoundPos(_, _, _)
RoundPos(n, d, s) ==
    IF n \div d < Pow2(MantBits)
    THEN RoundHalfEven(n, d) * s
    ELSE RoundPos(n, d * 2, s * 2)

\* The float nearest to the rational n / (d * FUnit), d > 0
Saturate(s, m) ==
    IF m > FMaxQ THEN (IF s < 0 THEN FNegInf ELSE FInf) ELSE Fin(s * m)

RoundQ(n, d) == Saturate(Sgn(n), RoundPos(Abs(n), d, 1))

f64_neg(x) ==
    CASE x.k = "fin" -> Fin(-x.q)
      [] x.k = "inf" -> FNegInf
      [] x.k = "ninf" -> FInf
      [] OTHER -> FNaN

f64_add(x, y) ==
    CASE x.k = "nan" \/ y.k = "nan" -> FNaN
      [] x.k = "fin" /\ y.k = "fin" -> RoundQ(x.q + y.q, 1)
      [] x.k = "fin" -> y
      [] y.k = "fin" -> x
      [] x.k = y.k -> x
      [] OTHER -> FNaN

f64_sub(x, y) == f64_add(x, f64_neg(y))

FSign(x) == IF x.k = "fin" THEN Sgn(x.q) ELSE IF x.k = "inf" THEN 1 ELSE -1

f64_mul(x, y) ==
    CASE x.k = "nan" \/ y.k = "nan" -> FNaN
      [] x.k = "fin" /\ y.k = "fin" -> RoundQ(x.q * y.q, FUnit)
      [] FSign(x) * FSign(y) = 0 -> FNaN
      [] FSign(x) * FSign(y) > 0 -> FInf
      [] OTHER -> FNegInf

f64_div(x, y) ==
    CASE x.k = "nan" \/ y.k = "nan" -> FNaN
      [] x.k = "fin" /\ y.k = "fin" /\ y.q # 0 ->
            RoundQ(Sgn(y.q) * x.q * FUnit, Abs(y.q))
      [] x.k = "fin" /\ y.k = "fin" ->
            IF x.q = 0 THEN FNaN ELSE IF x.q > 0 THEN FInf ELSE FNegInf
      [] x.k = "fin" -> Fin(0)
      [] y.k = "fin" -> IF FSign(x) * (IF y.q < 0 THEN -1 ELSE 1) > 0 THEN FInf ELSE FNegInf
      [] OTHER -> FNaN

\* `==` on f64: NaN is equal to nothing
f64_eq(x, y) == x.k # "nan" /\ y.k # "nan" /\ x = y

\* `<` and `<=` on f64: false when an operand is NaN
FOrd(x) == IF x.k = "inf" THEN FMaxQ + 1 ELSE IF x.k = "ninf" THEN -FMaxQ - 1 ELSE x.q
f64_lt(x, y) == x.k # "nan" /\ y.k # "nan" /\ FOrd(x) < FOrd(y)
f64_le(x, y) == x.k # "nan" /\ y.k # "nan" /\ FOrd(x) <= FOrd(y)

\* f64::clamp
f64_clamp(x, lo, hi) ==
    IF f64_lt(x, lo) THEN lo ELSE IF f64_lt(hi, x) THEN hi ELSE x

\* `i as f64`
i128_as_f64(i) == RoundQ(i * FUnit, 1)

\* `f as i128`: truncates towards zero, saturates, NaN gives 0
SaturateInt(t) == IF t > IntMax THEN IntMax ELSE IF t < IntMin THEN IntMin ELSE t

f64_as_i128(x) ==
    CASE x.k = "nan" -> 0
      [] x.k = "inf" -> IntMax
      [] x.k = "ninf" -> IntMin
      [] OTHER -> SaturateInt(Sgn(x.q) * (Abs(x.q) \div FUnit))

\* The finite floats of the format
IsF64Q(q) == q = 0 \/ RoundQ(q, 1) = Fin(q)

(***************************************************************************)
(* Values, spans, results and errors.                                      *)
(***************************************************************************)
VARIABLES scopes, stdout, log, cur, ret, overflow_checks, args, out, fn, errors

vars == <<scopes, stdout, log, cur, ret, overflow_checks, args, out, fn, errors>>

Val_Int(i) == [typ |-> "Int", i |-> i]
Val_Float(f) == [typ |-> "Float", f |-> f]
Val_Bool(b) == [typ |-> "Bool", b |-> b]
Val_Range(incl, a, b) == [typ |-> "Range", inclusive |-> incl, a |-> a, b |-> b]

CRange(start, end) == [start |-> start, end |-> end]
pos(p) == CRange(p, p + 1)
ValRange(val, range) == [val |-> val, range |-> range]
IdentRange(ident, range) == [ident |-> ident, range |-> range]

\* crate::Result<T>; a panic of the program is a third outcome
Ok(v) == [st |-> "ok", v |-> v]
Err(e) == [st |-> "err", err |-> e]
Panic == [st |-> "panic"]

Error1(name, r) == [e |-> name, a |-> r]
Error2(name, a, b) == [e |-> name, a |-> a, b |-> b]
ErrorId(name, id) == [e |-> name, name |-> id.ident, range |-> id.range]

\* Return
ReturnVal(v) == [typ |-> "Val", v |-> v]
ReturnUnit(r) == [typ |-> "Unit", range |-> r]

return_val(val, range) == Ok(ReturnVal(ValRange(val, range)))

Val_to_f64(v) ==
    CASE v.typ = "Int" -> Some(i128_as_f64(v.i))
      [] v.typ = "Float" -> Some(v.f)
      [] OTHER -> None

\* Option::ok_or_else
ok_or_else(o, e) == IF o.some THEN Ok(o.v) ELSE Err(e)

ValRange_to_f64(vr) == ok_or_else(Val_to_f64(vr.val), Error1("ExpectedNumber", vr))

ValRange_to_int(vr) ==
    IF vr.val.typ = "Int" THEN Ok(vr.val.i) ELSE Err(Error1("ExpectedInt", vr))

ValRange_to_bool(vr) ==
    IF vr.val.typ = "Bool" THEN Ok(vr.val.b) ELSE Err(Error1("ExpectedBool", vr))

ValRange_to_range(vr) ==
    IF vr.val.typ = "Range" THEN Ok(vr.val) ELSE Err(Error1("ExpectedRange", vr))

into_val(r) ==
    IF r.typ = "Val" THEN Ok(r.v) ELSE Err(Error1("ExpectedValue", r.range))

convert_to_int(v) ==
    CASE v.typ = "Int" -> Some(v.i)
      [] v.typ = "Float" ->
            IF f64_eq(i128_as_f64(f64_as_i128(v.f)), v.f)
            THEN Some(f64_as_i128(v.f))
            ELSE None
      [] OTHER -> None

\* Val: PartialEq
Val_eq(x, y) ==
    CASE x.typ = "Float" /\ y.typ = "Float" -> f64_eq(x.f, y.f)
      [] x.typ = "Int" /\ y.typ = "Float" -> y.f = Fin(x.i * FUnit)
      [] x.typ = "Float" /\ y.typ = "Int" -> x.f = Fin(y.i * FUnit)
      [] OTHER -> x = y

(***************************************************************************)
(* Checked arithmetic on values (eval/mod.rs, 902-953).                    *)
(***************************************************************************)
BothInt(va, vb) == va.val.typ = "Int" /\ vb.val.typ = "Int"

\* `va.to_f64()?`, `vb.to_f64()?`: the two floats, or the first error
to_f64_both(fa, fb) ==
    IF fa.st # "ok" THEN fa ELSE IF fb.st # "ok" THEN fb ELSE Ok(<<fa.v, fb.v>>)

to_f64s(va, vb) == to_f64_both(ValRange_to_f64(va), ValRange_to_f64(vb))

\* Option<i128> of a checked operation to the Int, or the error e
IntOr(o, e) == IF o.some THEN Ok(Val_Int(o.v)) ELSE Err(e)

checked_add(va, vb) ==
    IF BothInt(va, vb)
    THEN IntOr(i128_checked_add(va.val.i, vb.val.i), Error2("AddOverflow", va, vb))
    ELSE LET sum(f) == IF f.st # "ok" THEN f ELSE Ok(Val_Float(f64_add(f.v[1], f.v[2])))
         IN  sum(to_f64s(va, vb))

checked_sub(va, vb) ==
    IF BothInt(va, vb)
    THEN IntOr(i128_checked_sub(va.val.i, vb.val.i), Error2("SubOverflow", va, vb))
    ELSE LET difference(f) ==
                 IF f.st # "ok" THEN f ELSE Ok(Val_Float(f64_sub(f.v[1], f.v[2])))
         IN  difference(to_f64s(va, vb))

checked_mul(va, vb) ==
    IF BothInt(va, vb)
    THEN IntOr(i128_checked_mul(va.val.i, vb.val.i), Error2("MulOverflow", va, vb))
    ELSE LET product(f) ==
                 IF f.st # "ok" THEN f ELSE Ok(Val_Float(f64_mul(f.v[1], f.v[2])))
         IN  product(to_f64s(va, vb))

\* `a % b` and `a / b` on i128 panic for i128::MIN and -1 in every build
RemOverflows(a, b) == a = IntMin /\ b = -1

\* the (Int, Int) arm of checked_div
int_quotient(va, vb, a, b) ==
    IF b = 0 THEN Err(Error2("DivideByZero", va, vb))
    ELSE IF RemOverflows(a, b) THEN Panic
    ELSE IF RustRem(a, b) = 0 THEN Ok(Val_Int(RustDiv(a, b)))
    ELSE Ok(Val_Float(f64_div(i128_as_f64(a), i128_as_f64(b))))

\* the arm of checked_div for the other operands: divisor and dividend are
\* `vb.to_f64()` and `va.to_f64()`
float_quotient(va, vb, divisor, dividend) ==
    IF divisor.st # "ok" THEN divisor
    ELSE IF f64_eq(divisor.v, Fin(0)) THEN Err(Error2("DivideByZero", va, vb))
    ELSE IF dividend.st # "ok" THEN dividend
    ELSE Ok(Val_Float(f64_div(dividend.v, divisor.v)))

\* checked_div with the division of IEEE 754 in the float arm
checked_div_ieee(va, vb) ==
    IF BothInt(va, vb)
    THEN int_quotient(va, vb, va.val.i, vb.val.i)
    ELSE LET quotient(f) ==
                 IF f.st # "ok" THEN f ELSE Ok(Val_Float(f64_div(f.v[1], f.v[2])))
         IN  quotient(to_f64s(va, vb))

checked_div(va, vb) ==
    IF BothInt(va, vb)
    THEN int_quotient(va, vb, va.val.i, vb.val.i)
    ELSE float_quotient(va, vb, ValRange_to_f64(vb), ValRange_to_f64(va))

(***************************************************************************)
(* Integer power, factorial.                                               *)
(***************************************************************************)
RECURSIVE i128_checked_pow(_, _)
i128_checked_pow(base, e) ==
    IF e = 0 THEN Some(1)
    ELSE LET p == i128_checked_pow(base, e - 1)
         IN  IF p.some THEN i128_checked_mul(p.v, base) ELSE None

RECURSIVE i128_wrapping_pow(_, _)
i128_wrapping_pow(base, e) ==
    IF e = 0 THEN 1 ELSE Wrap(i128_wrapping_pow(base, e - 1) * base)

\* i128::pow: an overflow panics when the build has overflow checks
\* (debug) and wraps around when it has not (release)
i128_pow(base, e) ==
    LET checked(p) ==
            IF p.some THEN Ok(p.v)
            ELSE IF overflow_checks THEN Panic
            ELSE Ok(i128_wrapping_pow(base, e))
    IN  checked(i128_checked_pow(base, e))

\* f64::powi: square and multiply, the reciprocal for a negative exponent
RECURSIVE PowiLoop(_, _, _)
PowiLoop(a, b, r) ==
    LET r1 == IF b % 2 = 1 THEN f64_mul(r, a) ELSE r
    IN  IF b \div 2 = 0 THEN r1 ELSE PowiLoop(f64_mul(a, a), b \div 2, r1)

f64_powi(a, b) ==
    LET r == PowiLoop(a, Abs(b), Fin(FUnit))
    IN  IF b < 0 THEN f64_div(Fin(FUnit), r) ELSE r

\* f64::powf, on the arguments where the result is 1 by definition
f64_powf(x, y) ==
    CASE y = Fin(0) -> Fin(FUnit)
      [] x = Fin(FUnit) -> Fin(FUnit)

\* the arms of the match in Context::pow
pow_vals(va, vb) ==
    IF BothInt(va, vb)
    THEN LET base == va.val.i
             exp == vb.val.i
         IN  IF 0 <= exp /\ exp <= U32Max
             THEN LET int(p) == IF p.st = "ok" THEN Ok(Val_Int(p.v)) ELSE p
                  IN  int(i128_pow(base, exp))
             ELSE IF I32Min <= exp /\ exp <= I32Max
             THEN Ok(Val_Float(f64_powi(i128_as_f64(base), exp)))
             ELSE Err(Error2("PowOverflow", va, vb))
    ELSE LET power(f) ==
                 IF f.st # "ok" THEN f ELSE Ok(Val_Float(f64_powf(f.v[1], f.v[2])))
         IN  power(to_f64s(va, vb))

\* the arms of the match in Context::rem
rem_vals(va, vb) ==
    IF BothInt(va, vb)
    THEN LET a == va.val.i
             b == vb.val.i
         IN  IF b = 0 THEN Err(Error2("RemainderByZero", va, vb))
             ELSE IF RemOverflows(a, b) THEN Panic
             ELSE LET r == RustRem(a, b)
                  IN  IF (r > 0 /\ b < 0) \/ (r < 0 /\ b > 0)
                      THEN Ok(Val_Int(r + b))
                      ELSE Ok(Val_Int(r))
    ELSE Err(Error2("FractionRemainder", va, vb))

\* the arms of the match in Context::int_div
int_div_vals(va, vb) ==
    IF BothInt(va, vb)
    THEN LET a == va.val.i
             b == vb.val.i
         IN  IF b = 0 THEN Err(Error2("DivideByZero", va, vb))
             ELSE IF RemOverflows(a, b) THEN Panic
             ELSE Ok(Val_Int(RustDiv(a, b)))
    ELSE Err(Error2("FractionEuclidDiv", va, vb))

\* the loop `for i in 1..=i` of Context::factorial
RECURSIVE factorial_loop(_, _, _)
factorial_loop(f, i, n) ==
    IF i > n THEN Some(f)
    ELSE LET v == i128_checked_mul(f, i)
         IN  IF v.some THEN factorial_loop(v.v, i + 1, n) ELSE None

\* factorial without the test `i < 0`
factorial_val_unsigned(v) ==
    IF v.val.typ = "Int"
    THEN IntOr(factorial_loop(1, 1, v.val.i), Error1("FactorialOverflow", v))
    ELSE Err(Error1("FractionFactorial", v))

factorial_val(v) ==
    IF v.val.typ = "Int"
    THEN IF v.val.i < 0 THEN Err(Error1("NegativeFactorial", v))
         ELSE IntOr(factorial_loop(1, 1, v.val.i), Error1("FactorialOverflow", v))
    ELSE Err(Error1("FractionFactorial", v))

(***************************************************************************)
(* The evaluator.  A Context is [scopes, stdout, log]; every method takes  *)
(* the Context and gives [out, ctx]: its outcome and the Context it        *)
(* leaves.  log is the history of the calls of eval_ast: an "enter" event  *)
(* when a node is entered and an "exit" event with its outcome.            *)
(***************************************************************************)
Ret(o, ctx) == [out |-> o, ctx |-> ctx]
IsOk(r) == r.out.st = "ok"

Context(sc, so, lg) == [scopes |-> sc, stdout |-> so, log |-> lg]

\* Scope::default()
Scope_default == [vars |-> <<>>, funs |-> <<>>]
Var(value, mutable) == [value |-> value, mutable |-> mutable]
Fun(id, params, blk) == [ident |-> id, params |-> params, block |-> blk]

\* Scope::def_var
Scope_def_var(scope, id, value, mutable) ==
    [scope EXCEPT !.vars = (id.ident :> Var(value, mutable)) @@ @]

Last(seq) == seq[Len(seq)]
Front(seq) == SubSeq(seq, 1, Len(seq) - 1)
Push(ctx, scope) == [ctx EXCEPT !.scopes = Append(@, scope)]
Pop(ctx) == [ctx EXCEPT !.scopes = Front(@)]

\* Context::def_var: defines the variable in the innermost scope
def_var(ctx, id, value, mutable) ==
    [ctx EXCEPT !.scopes[Len(ctx.scopes)] = Scope_def_var(@, id, value, mutable)]

\* Context::def_fun: a name the innermost scope has already is an error
def_fun(ctx, id, params, blk) ==
    LET funs == ctx.scopes[Len(ctx.scopes)].funs
    IN  IF id.ident \in DOMAIN funs
        THEN Ret(Err([e |-> "RedefinedFun", name |-> id.ident,
                      first |-> funs[id.ident].ident.range, second |-> id.range]), ctx)
        ELSE Ret(Ok(TRUE),
                 [ctx EXCEPT !.scopes[Len(ctx.scopes)].funs =
                                 (id.ident :> Fun(id, params, blk)) @@ @])

\* the innermost scope that has the name, 0 when there is none
RECURSIVE FindVar(_, _, _)
FindVar(sc, name, k) ==
    IF k = 0 THEN 0
    ELSE IF name \in DOMAIN sc[k].vars THEN k
    ELSE FindVar(sc, name, k - 1)

RECURSIVE FindFun(_, _, _)
FindFun(sc, name, k) ==
    IF k = 0 THEN 0
    ELSE IF name \in DOMAIN sc[k].funs THEN k
    ELSE FindFun(sc, name, k - 1)

\* Context::resolve_var
resolve_var(ctx, id) ==
    LET k == FindVar(ctx.scopes, id.ident, Len(ctx.scopes))
    IN  IF k = 0 THEN Err(ErrorId("UndefinedVar", id))
        ELSE LET var == ctx.scopes[k].vars[id.ident]
             IN  IF var.value.some THEN Ok(ValRange(var.value.v, id.range))
                 ELSE Err(ErrorId("UndefinedVar", id))

\* Context::resolve_fun
resolve_fun(ctx, id) ==
    LET k == FindFun(ctx.scopes, id.ident, Len(ctx.scopes))
    IN  IF k = 0 THEN Err(ErrorId("UndefinedFun", id))
        ELSE Ok(ctx.scopes[k].funs[id.ident])

\* the error of an assignment to a `val`: the name, the span of the
\* variable at the assignment and the span of the assigned value
ImmutableAssign(id, range) ==
    [e |-> "ImmutableAssign", name |-> id.ident, a |-> id.range, b |-> range]

\* the variable is assigned whether it is mutable or not
set_var_unchecked(ctx, id, value, range) ==
    LET k == FindVar(ctx.scopes, id.ident, Len(ctx.scopes))
    IN  IF k = 0 THEN Ret(Err(ErrorId("UndefinedVar", id)), ctx)
        ELSE Ret(Ok(TRUE), [ctx EXCEPT !.scopes[k].vars[id.ident].value = value])

\* Context::set_var
set_var(ctx, id, value, range) ==
    LET k == FindVar(ctx.scopes, id.ident, Len(ctx.scopes))
    IN  IF k = 0 THEN Ret(Err(ErrorId("UndefinedVar", id)), ctx)
        ELSE IF ~ctx.scopes[k].vars[id.ident].mutable
        THEN Ret(Err(ImmutableAssign(id, range)), ctx)
        ELSE Ret(Ok(TRUE), [ctx EXCEPT !.scopes[k].vars[id.ident].value = value])

\* The nodes of the tree
Ast(typ, fields, range) == [typ |-> typ, range |-> range] @@ fields
AstVal(v, r) == Ast("Val", [val |-> v], r)
AstIdent(name, r) == Ast("Ident", [id |-> name], r)
Ast1(typ, a, r) == Ast(typ, [a |-> a], r)
Ast2(typ, a, b, r) == Ast(typ, [a |-> a, b |-> b], r)
AstN(typ, as, r) == Ast(typ, [args |-> as], r)
AstBlock(asts, r) == Ast("Block", [asts |-> asts], r)
AstClamp(num, lo, hi, r) == Ast("Clamp", [num |-> num, min |-> lo, max |-> hi], r)
AstVarDef(id, a, mutable, r) == Ast("VarDef", [id |-> id, a |-> a, mutable |-> mutable], r)
AstAssign(typ, id, a, r) == Ast(typ, [id |-> id, a |-> a], r)
Block(asts, r) == [asts |-> asts, range |-> r]
CondBlock(cond, blk, r) == [cond |-> cond, block |-> blk, range |-> r]
AstIfExpr(cases, else_block, r) == Ast("IfExpr", [cases |-> cases, else_block |-> else_block], r)
AstForLoop(id, iter, blk, r) == Ast("ForLoop", [ident |-> id, iter |-> iter, block |-> blk], r)
AstFunDef(id, params, blk, r) == Ast("FunDef", [id |-> id, params |-> params, block |-> blk], r)
AstFunCall(id, as, r) == Ast("FunCall", [id |-> id, args |-> as], r)

\* the events of the history: the node, the depth of the scope stack, the
\* scopes and the output at that moment and, on exit, the outcome
Enter(ast, ctx) ==
    [ev |-> "enter", node |-> ast, depth |-> Len(ctx.scopes),
     scopes |-> ctx.scopes, stdout |-> ctx.stdout]
Exit(ast, o, ctx) ==
    [ev |-> "exit", node |-> ast, depth |-> Len(ctx.scopes),
     scopes |-> ctx.scopes, stdout |-> ctx.stdout, out |-> o]
Logged(ctx, e) == [ctx EXCEPT !.log = Append(@, e)]

\* the closure of Context::eval_ast (284-291): a produced Float that
\* convert_to_int accepts becomes that Int
Normalize(o) ==
    IF o.st = "ok" /\ o.v.typ = "Val"
    THEN LET int(i) ==
                 IF i.some THEN Ok(ReturnVal(ValRange(Val_Int(i.v), o.v.v.range))) ELSE o
         IN  int(convert_to_int(o.v.v.val))
    ELSE o

RECURSIVE eval_ast(_, _)

\* the `?` after a `let val = ...`: the value in `return_val(val, range)`,
\* or the error
RetVal(o, range, ctx) ==
    IF o.st = "ok" THEN Ret(return_val(o.v, range), ctx) ELSE Ret(o, ctx)

\* `...?; Ok(Return::Unit(range))`
RetUnit(r, range) == IF ~IsOk(r) THEN r ELSE Ret(Ok(ReturnUnit(range)), r.ctx)

eval_to_val(ast, ctx) ==
    LET into(r) == IF IsOk(r) THEN Ret(into_val(r.out.v), r.ctx) ELSE r
    IN  into(eval_ast(ast, ctx))

\* Return::to_int, to_f64, to_bool, to_range after eval_ast
eval_to_int(ast, ctx) ==
    LET to(r) == IF IsOk(r) THEN Ret(ValRange_to_int(r.out.v), r.ctx) ELSE r
    IN  to(eval_to_val(ast, ctx))

eval_to_f64(ast, ctx) ==
    LET to(r) == IF IsOk(r) THEN Ret(ValRange_to_f64(r.out.v), r.ctx) ELSE r
    IN  to(eval_to_val(ast, ctx))

eval_to_bool(ast, ctx) ==
    LET to(r) == IF IsOk(r) THEN Ret(ValRange_to_bool(r.out.v), r.ctx) ELSE r
    IN  to(eval_to_val(ast, ctx))

eval_to_range(ast, ctx) ==
    LET to(r) == IF IsOk(r) THEN Ret(ValRange_to_range(r.out.v), r.ctx) ELSE r
    IN  to(eval_to_val(ast, ctx))

\* the values <<va, vb>> of two operands and the Context after the second,
\* or the error of the second
Both(va, vb) == IF ~IsOk(vb) THEN vb ELSE Ret(Ok(<<va.out.v, vb.out.v>>), vb.ctx)

\* the operands in the opposite order: b, then a
eval_to_vals_right_first(a, b, ctx) ==
    LET first(vb) ==
            IF ~IsOk(vb) THEN vb
            ELSE LET second(va) ==
                         IF ~IsOk(va) THEN va
                         ELSE Ret(Ok(<<va.out.v, vb.out.v>>), va.ctx)
                 IN  second(eval_to_val(a, vb.ctx))
    IN  first(eval_to_val(b, ctx))

\* `let va = self.eval_to_val(a)?; let vb = self.eval_to_val(b)?;`
eval_to_val_both(a, b, ctx) ==
    LET first(va) == IF ~IsOk(va) THEN va ELSE Both(va, eval_to_val(b, va.ctx))
    IN  first(eval_to_val(a, ctx))

\* `let va = self.eval_to_int(a)?; let vb = self.eval_to_int(b)?;`
eval_to_int_both(a, b, ctx) ==
    LET first(va) == IF ~IsOk(va) THEN va ELSE Both(va, eval_to_int(b, va.ctx))
    IN  first(eval_to_int(a, ctx))

\* `let va = self.eval_to_f64(a)?; let vb = self.eval_to_f64(b)?;`
eval_to_f64_both(a, b, ctx) ==
    LET first(va) == IF ~IsOk(va) THEN va ELSE Both(va, eval_to_f64(b, va.ctx))
    IN  first(eval_to_f64(a, ctx))

\* `let va = self.eval_to_bool(a)?; let vb = self.eval_to_bool(b)?;`
eval_to_bool_both(a, b, ctx) ==
    LET first(va) == IF ~IsOk(va) THEN va ELSE Both(va, eval_to_bool(b, va.ctx))
    IN  first(eval_to_bool(a, ctx))

\* Context::eval_to_vals: the values of args[k..], in order
RECURSIVE eval_to_vals_from(_, _, _, _)
eval_to_vals_from(as, k, vals, ctx) ==
    LET next(r) ==
            IF IsOk(r) THEN eval_to_vals_from(as, k + 1, Append(vals, r.out.v), r.ctx)
            ELSE r
    IN  IF k > Len(as) THEN Ret(Ok(vals), ctx) ELSE next(eval_to_val(as[k], ctx))

eval_to_vals(as, ctx) == eval_to_vals_from(as, 1, <<>>, ctx)

\* `for c in others { self.eval_ast(c)?; }`
RECURSIVE eval_others(_, _, _)
eval_others(asts, k, ctx) ==
    LET next(r) == IF IsOk(r) THEN eval_others(asts, k + 1, r.ctx) ELSE r
    IN  IF k > Len(asts) THEN Ret(Ok(TRUE), ctx) ELSE next(eval_ast(asts[k], ctx))

\* Context::expr
expr(ast, range, ctx) ==
    IF ast.typ = "Val" THEN Ret(return_val(ast.val, range), ctx)
    ELSE LET var(v) == IF v.st = "ok" THEN Ret(Ok(ReturnVal(v.v)), ctx) ELSE Ret(v, ctx)
         IN  var(resolve_var(ctx, IdentRange(ast.id, ast.range)))

\* `self.scopes.pop(); r` (a panic unwinds past it)
Popped(r) == IF r.out.st = "panic" THEN r ELSE Ret(r.out, Pop(r.ctx))

\* the statements of a block or of the body of a function, c1 the Context
\* after the push of its scope
Statements(asts, range, c1) ==
    LET last(o) == IF ~IsOk(o) THEN o ELSE Popped(eval_ast(Last(asts), o.ctx))
    IN  IF Len(asts) = 0 THEN Ret(Ok(ReturnUnit(range)), Pop(c1))
        ELSE last(eval_others(Front(asts), 1, c1))

\* the statements run on a copy of the enclosing scope
block_on_copy(asts, range, ctx) == Statements(asts, range, Push(ctx, Last(ctx.scopes)))

\* Context::block
block(asts, range, ctx) == Statements(asts, range, Push(ctx, Scope_default))

\* the condition of the next case is evaluated before the block of a
\* case whose condition is true
RECURSIVE if_cases_eager(_, _, _, _, _)
if_cases_eager(cases, k, else_block, range, ctx) ==
    LET then(n) == IF ~IsOk(n) THEN n ELSE block(cases[k].block, range, n.ctx)
        branch(c) ==
            IF ~IsOk(c) THEN c
            ELSE IF c.out.v
            THEN IF k < Len(cases) THEN then(eval_to_bool(cases[k + 1].cond, c.ctx))
                 ELSE block(cases[k].block, range, c.ctx)
            ELSE if_cases_eager(cases, k + 1, else_block, range, c.ctx)
    IN  IF k > Len(cases)
        THEN IF else_block.some
             THEN block(else_block.v.asts, else_block.v.range, ctx)
             ELSE Ret(Ok(ReturnUnit(range)), ctx)
        ELSE branch(eval_to_bool(cases[k].cond, ctx))

\* Context::if_expr
RECURSIVE if_cases(_, _, _, _, _)
if_cases(cases, k, else_block, range, ctx) ==
    LET branch(c) ==
            IF ~IsOk(c) THEN c
            ELSE IF c.out.v THEN block(cases[k].block, range, c.ctx)
            ELSE if_cases(cases, k + 1, else_block, range, c.ctx)
    IN  IF k > Len(cases)
        THEN IF else_block.some
             THEN block(else_block.v.asts, else_block.v.range, ctx)
             ELSE Ret(Ok(ReturnUnit(range)), ctx)
        ELSE branch(eval_to_bool(cases[k].cond, ctx))

if_expr(ast, range, ctx) == if_cases(ast.cases, 1, ast.else_block, range, ctx)

\* the iterations from i to the value after hi
RECURSIVE for_iter_through(_, _, _, _)
for_iter_through(i, hi, for_loop, ctx) ==
    LET scope == Scope_def_var(Scope_default, for_loop.ident, Some(Val_Int(i)), FALSE)
        next(o) == IF ~IsOk(o) THEN o ELSE for_iter_through(i + 1, hi, for_loop, Pop(o.ctx))
    IN  IF i > hi + 1 THEN Ret(Ok(TRUE), ctx)
        ELSE next(eval_others(for_loop.block.asts, 1, Push(ctx, scope)))

\* Context::for_loop: the iterations from i to the last value hi
RECURSIVE for_iter(_, _, _, _)
for_iter(i, hi, for_loop, ctx) ==
    LET scope == Scope_def_var(Scope_default, for_loop.ident, Some(Val_Int(i)), FALSE)
        next(o) == IF ~IsOk(o) THEN o ELSE for_iter(i + 1, hi, for_loop, Pop(o.ctx))
    IN  IF i > hi THEN Ret(Ok(TRUE), ctx)
        ELSE next(eval_others(for_loop.block.asts, 1, Push(ctx, scope)))

for_loop(ast, range, ctx) ==
    LET iterate(iter) ==
            IF ~IsOk(iter) THEN iter
            ELSE RetUnit(for_iter(iter.out.v.a,
                                  IF iter.out.v.inclusive THEN iter.out.v.b
                                  ELSE iter.out.v.b - 1,
                                  ast, iter.ctx), range)
    IN  iterate(eval_to_range(ast.iter, ctx))

\* Context::fun_def
fun_def(id, params, blk, range, ctx) == RetUnit(def_fun(ctx, id, params, blk), range)

\* `for (p, v) in fun.params.iter().zip(args)` of Context::fun_call
RECURSIVE fun_call_args(_, _, _, _, _)
fun_call_args(params, as, k, scope, ctx) ==
    LET next(val) ==
            IF ~IsOk(val) THEN val
            ELSE fun_call_args(params, as, k + 1,
                     Scope_def_var(scope, params[k], Some(val.out.v.val), FALSE), val.ctx)
    IN  IF k > Len(params) THEN Ret(Ok(scope), ctx) ELSE next(eval_to_val(as[k], ctx))

\* the call takes the parameters and the arguments in pairs, whatever
\* their numbers
fun_call_unchecked(id, as, range, ctx) ==
    LET body(fun, scope) ==
            IF ~IsOk(scope) THEN scope
            ELSE Statements(fun.block.asts, range, Push(scope.ctx, scope.out.v))
        zipped(fun) ==
            SubSeq(fun.params, 1, IF Len(as) < Len(fun.params) THEN Len(as) ELSE Len(fun.params))
        call(fun) ==
            IF fun.st # "ok" THEN Ret(fun, ctx)
            ELSE body(fun.v, fun_call_args(zipped(fun.v), as, 1, Scope_default, ctx))
    IN  call(resolve_fun(ctx, id))

\* Context::fun_call
fun_call(id, as, range, ctx) ==
    LET body(fun, scope) ==
            IF ~IsOk(scope) THEN scope
            ELSE Statements(fun.block.asts, range, Push(scope.ctx, scope.out.v))
        call(fun) ==
            IF fun.st # "ok" THEN Ret(fun, ctx)
            ELSE IF Len(as) < Len(fun.v.params)
            THEN Ret(Err([e |-> "MissingFunArgs", range |-> pos(range.end - 1),
                          expected |-> Len(fun.v.params), found |-> Len(as)]), ctx)
            ELSE IF Len(as) > Len(fun.v.params)
            THEN Ret(Err([e |-> "UnexpectedFunArgs",
                          ranges |-> [i \in 1..(Len(as) - Len(fun.v.params)) |->
                                          as[Len(fun.v.params) + i].range],
                          expected |-> Len(fun.v.params), found |-> Len(as)]), ctx)
            ELSE body(fun.v, fun_call_args(fun.v.params, as, 1, Scope_default, ctx))
    IN  call(resolve_fun(ctx, id))

\* Context::var_def
var_def(id, b, mutable, range, ctx) ==
    LET def(val) ==
            IF ~IsOk(val) THEN val
            ELSE Ret(Ok(ReturnUnit(range)),
                     def_var(val.ctx, id, Some(val.out.v.val), mutable))
    IN  def(eval_to_val(b, ctx))

\* Context::assign
assign(id, b, range, ctx) ==
    LET set(v) ==
            IF ~IsOk(v) THEN v
            ELSE RetUnit(set_var(v.ctx, id, Some(v.out.v.val), v.out.v.range), range)
    IN  set(eval_to_val(b, ctx))

\* Context::add_assign, sub_assign, mul_assign, div_assign
checked_op(op, va, vb) ==
    CASE op = "+" -> checked_add(va, vb)
      [] op = "-" -> checked_sub(va, vb)
      [] op = "*" -> checked_mul(va, vb)
      [] op = "/" -> checked_div(va, vb)

OpAssign(id, b, range, ctx, op) ==
    LET set(vb, val) ==
            IF val.st # "ok" THEN Ret(val, vb.ctx)
            ELSE RetUnit(set_var(vb.ctx, id, Some(val.v), vb.out.v.range), range)
        with_vb(va, vb) ==
            IF ~IsOk(vb) THEN vb ELSE set(vb, checked_op(op, va.v, vb.out.v))
        with_va(va) ==
            IF va.st # "ok" THEN Ret(va, ctx) ELSE with_vb(va, eval_to_val(b, ctx))
    IN  with_va(resolve_var(ctx, id))

add_assign(id, b, range, ctx) == OpAssign(id, b, range, ctx, "+")
sub_assign(id, b, range, ctx) == OpAssign(id, b, range, ctx, "-")
mul_assign(id, b, range, ctx) == OpAssign(id, b, range, ctx, "*")
div_assign(id, b, range, ctx) == OpAssign(id, b, range, ctx, "/")

\* Context::range_ex, Context::range_in
RangeOf(a, b, range, ctx, incl) ==
    LET val(r) ==
            IF ~IsOk(r) THEN r
            ELSE Ret(return_val(Val_Range(incl, r.out.v[1], r.out.v[2]), range), r.ctx)
    IN  val(eval_to_int_both(a, b, ctx))

range_ex(a, b, range, ctx) == RangeOf(a, b, range, ctx, FALSE)
range_in(a, b, range, ctx) == RangeOf(a, b, range, ctx, TRUE)

\* the match of Context::neg
neg_val(v) ==
    IF v.val.typ = "Int"
    THEN IF v.val.i = IntMin
         THEN IF overflow_checks THEN Panic ELSE Ok(Val_Int(IntMin))
         ELSE Ok(Val_Int(-v.val.i))
    ELSE LET negated(f) == IF f.st # "ok" THEN f ELSE Ok(Val_Float(f64_neg(f.v)))
         IN  negated(ValRange_to_f64(v))

\* Context::neg
neg(n, range, ctx) ==
    LET val(v) == IF ~IsOk(v) THEN v ELSE RetVal(neg_val(v.out.v), range, v.ctx)
    IN  val(eval_to_val(n, ctx))

\* Context::add, sub, mul, div, int_div, rem, pow
add(a, b, range, ctx) ==
    LET val(r) ==
            IF ~IsOk(r) THEN r
            ELSE RetVal(checked_add(r.out.v[1], r.out.v[2]), range, r.ctx)
    IN  val(eval_to_val_both(a, b, ctx))

sub(a, b, range, ctx) ==
    LET val(r) ==
            IF ~IsOk(r) THEN r
            ELSE RetVal(checked_sub(r.out.v[1], r.out.v[2]), range, r.ctx)
    IN  val(eval_to_val_both(a, b, ctx))

mul(n1, n2, range, ctx) ==
    LET val(r) ==
            IF ~IsOk(r) THEN r
            ELSE RetVal(checked_mul(r.out.v[1], r.out.v[2]), range, r.ctx)
    IN  val(eval_to_val_both(n1, n2, ctx))

div(n1, n2, range, ctx) ==
    LET val(r) ==
            IF ~IsOk(r) THEN r
            ELSE RetVal(checked_div(r.out.v[1], r.out.v[2]), range, r.ctx)
    IN  val(eval_to_val_both(n1, n2, ctx))

int_div(n1, n2, range, ctx) ==
    LET val(r) ==
            IF ~IsOk(r) THEN r
            ELSE RetVal(int_div_vals(r.out.v[1], r.out.v[2]), range, r.ctx)
    IN  val(eval_to_val_both(n1, n2, ctx))

rem(n1, n2, range, ctx) ==
    LET val(r) ==
            IF ~IsOk(r) THEN r
            ELSE RetVal(rem_vals(r.out.v[1], r.out.v[2]), range, r.ctx)
    IN  val(eval_to_val_both(n1, n2, ctx))

pow(n1, n2, range, ctx) ==
    LET val(r) ==
            IF ~IsOk(r) THEN r
            ELSE RetVal(pow_vals(r.out.v[1], r.out.v[2]), range, r.ctx)
    IN  val(eval_to_val_both(n1, n2, ctx))

\* Context::eq, Context::ne
eq(a, b, range, ctx) ==
    LET val(r) ==
            IF ~IsOk(r) THEN r
            ELSE Ret(return_val(Val_Bool(Val_eq(r.out.v[1].val, r.out.v[2].val)), range),
                     r.ctx)
    IN  val(eval_to_val_both(a, b, ctx))

ne(a, b, range, ctx) ==
    LET val(r) ==
            IF ~IsOk(r) THEN r
            ELSE Ret(return_val(Val_Bool(~Val_eq(r.out.v[1].val, r.out.v[2].val)), range),
                     r.ctx)
    IN  val(eval_to_val_both(a, b, ctx))

\* Context::lt, le, gt, ge
f64_gt(x, y) == f64_lt(y, x)
f64_ge(x, y) == f64_le(y, x)

lt(a, b, range, ctx) ==
    LET val(r) ==
            IF ~IsOk(r) THEN r
            ELSE Ret(return_val(Val_Bool(f64_lt(r.out.v[1], r.out.v[2])), range), r.ctx)
    IN  val(eval_to_f64_both(a, b, ctx))

le(a, b, range, ctx) ==
    LET val(r) ==
            IF ~IsOk(r) THEN r
            ELSE Ret(return_val(Val_Bool(f64_le(r.out.v[1], r.out.v[2])), range), r.ctx)
    IN  val(eval_to_f64_both(a, b, ctx))

gt(a, b, range, ctx) ==
    LET val(r) ==
            IF ~IsOk(r) THEN r
            ELSE Ret(return_val(Val_Bool(f64_gt(r.out.v[1], r.out.v[2])), range), r.ctx)
    IN  val(eval_to_f64_both(a, b, ctx))

ge(a, b, range, ctx) ==
    LET val(r) ==
            IF ~IsOk(r) THEN r
            ELSE Ret(return_val(Val_Bool(f64_ge(r.out.v[1], r.out.v[2])), range), r.ctx)
    IN  val(eval_to_f64_both(a, b, ctx))

\* Context::min, Context::max: the fold over args[k..]
RECURSIVE fold_args(_, _, _, _, _)
fold_args(as, k, acc, ctx, least) ==
    LET next(val) ==
            IF ~IsOk(val) THEN val
            ELSE fold_args(as, k + 1,
                     IF ~acc.some \/ (IF least THEN f64_lt(val.out.v, acc.v)
                                               ELSE f64_gt(val.out.v, acc.v))
                     THEN Some(val.out.v) ELSE acc,
                     val.ctx, least)
    IN  IF k > Len(as) THEN Ret(Ok(acc), ctx) ELSE next(eval_to_f64(as[k], ctx))

\* `return_val(Val::Float(min), range)`, min the Option of the fold: None
\* panics
Folded(m, range) ==
    IF ~IsOk(m) THEN m
    ELSE IF ~m.out.v.some THEN Ret(Panic, m.ctx)
    ELSE Ret(return_val(Val_Float(m.out.v.v), range), m.ctx)

min(as, range, ctx) == Folded(fold_args(as, 1, None, ctx, TRUE), range)
max(as, range, ctx) == Folded(fold_args(as, 1, None, ctx, FALSE), range)

\* Context::or
or(a, b, range, ctx) ==
    LET val(r) ==
            IF ~IsOk(r) THEN r
            ELSE Ret(return_val(Val_Bool(r.out.v[1] \/ r.out.v[2]), range), r.ctx)
    IN  val(eval_to_bool_both(a, b, ctx))

\* Context::and
and(a, b, range, ctx) ==
    LET val(r) ==
            IF ~IsOk(r) THEN r
            ELSE Ret(return_val(Val_Bool(r.out.v[1] /\ r.out.v[2]), range), r.ctx)
    IN  val(eval_to_bool_both(a, b, ctx))

\* Context::not
not(a, range, ctx) ==
    LET val(va) ==
            IF ~IsOk(va) THEN va
            ELSE Ret(return_val(Val_Bool(~va.out.v), range), va.ctx)
    IN  val(eval_to_bool(a, ctx))

\* Context::factorial
factorial(n, range, ctx) ==
    LET val(v) == IF ~IsOk(v) THEN v ELSE RetVal(factorial_val(v.out.v), range, v.ctx)
    IN  val(eval_to_val(n, ctx))

\* the floats of the operands of clamp, or the first error
to_f64_all(fnum, fmin, fmax) ==
    IF fnum.st # "ok" THEN fnum
    ELSE IF fmin.st # "ok" THEN fmin
    ELSE IF fmax.st # "ok" THEN fmax
    ELSE Ok(<<fnum.v, fmin.v, fmax.v>>)

\* the match of Context::clamp
clamp_vals(vnum, vmin, vmax) ==
    IF vnum.val.typ = "Int" /\ vmin.val.typ = "Int" /\ vmax.val.typ = "Int"
    THEN IF vmin.val.i > vmax.val.i
         THEN Err(Error2("InvalidClampBounds", vmin, vmax))
         ELSE Ok(Val_Int(IF vnum.val.i < vmin.val.i THEN vmin.val.i
                         ELSE IF vnum.val.i > vmax.val.i THEN vmax.val.i
                         ELSE vnum.val.i))
    ELSE LET clamped(f) ==
                 IF f.st # "ok" THEN f
                 ELSE IF ~f64_le(f.v[2], f.v[3])
                 THEN Err(Error2("InvalidClampBounds", vmin, vmax))
                 ELSE Ok(Val_Float(f64_clamp(f.v[1], f.v[2], f.v[3])))
         IN  clamped(to_f64_all(ValRange_to_f64(vnum), ValRange_to_f64(vmin),
                                ValRange_to_f64(vmax)))

\* Context::clamp
clamp(num, lo, hi, range, ctx) ==
    LET with_max(r, vmax) ==
            IF ~IsOk(vmax) THEN vmax
            ELSE RetVal(clamp_vals(r.out.v[1], r.out.v[2], vmax.out.v), range, vmax.ctx)
        with_min(r) == IF ~IsOk(r) THEN r ELSE with_max(r, eval_to_val(hi, r.ctx))
    IN  with_min(eval_to_val_both(num, lo, ctx))

\* Display for Val
RECURSIVE FracDigits(_, _)
FracDigits(r, u) ==
    IF r = 0 THEN "" ELSE ToString((r * 10) \div u) \o FracDigits((r * 10) % u, u)

DisplayF64(x) ==
    CASE x.k = "nan" -> "NaN"
      [] x.k = "inf" -> "inf"
      [] x.k = "ninf" -> "-inf"
      [] OTHER ->
            LET whole == ToString(Abs(x.q) \div FUnit)
                frac == FracDigits(Abs(x.q) % FUnit, FUnit)
            IN  (IF x.q < 0 THEN "-" ELSE "") \o whole
                    \o (IF frac = "" THEN "" ELSE "." \o frac)

Display(v) ==
    CASE v.typ = "Int" -> ToString(v.i)
      [] v.typ = "Float" -> DisplayF64(v.f)
      [] v.typ = "Bool" -> IF v.b THEN "true" ELSE "false"
      [] v.typ = "Str" -> v.s
      [] v.typ = "Range" ->
            ToString(v.a) \o (IF v.inclusive THEN "..=" ELSE "..") \o ToString(v.b)

Write(ctx, text) == [ctx EXCEPT !.stdout = @ \o text]

\* the values after the first are written without the space
RECURSIVE print_others_unseparated(_, _, _)
print_others_unseparated(vals, k, ctx) ==
    IF k > Len(vals) THEN ctx
    ELSE print_others_unseparated(vals, k + 1, Write(ctx, Display(vals[k].val)))

\* Context::print
RECURSIVE print_others(_, _, _)
print_others(vals, k, ctx) ==
    IF k > Len(vals) THEN ctx
    ELSE print_others(vals, k + 1, Write(ctx, " " \o Display(vals[k].val)))

print(as, range, ctx) ==
    LET write(vals) ==
            IF ~IsOk(vals) THEN vals
            ELSE IF Len(vals.out.v) = 0 THEN Ret(Ok(ReturnUnit(range)), vals.ctx)
            ELSE Ret(Ok(ReturnUnit(range)),
                     print_others(vals.out.v, 2,
                                  Write(vals.ctx, Display(vals.out.v[1].val))))
    IN  write(eval_to_vals(as, ctx))

\* Context::println
println(as, range, ctx) ==
    LET newline(p) == IF ~IsOk(p) THEN p ELSE Ret(Ok(ReturnUnit(range)), Write(p.ctx, "\n"))
    IN  newline(print(as, range, ctx))

\* Context::spill: a line for every variable that has a value, the
\* scopes from the outermost to the innermost
RECURSIVE spill_vars(_, _)
spill_vars(vs, names) ==
    IF names = {} THEN ""
    ELSE LET id == CHOOSE n \in names : TRUE
         IN  (IF vs[id].value.some
              THEN id \o " = " \o Display(vs[id].value.v) \o "\n"
              ELSE "") \o spill_vars(vs, names \ {id})

RECURSIVE spill_scopes(_, _)
spill_scopes(sc, k) ==
    IF k > Len(sc) THEN ""
    ELSE spill_vars(sc[k].vars, DOMAIN sc[k].vars) \o spill_scopes(sc, k + 1)

spill(range, ctx) == Ret(Ok(ReturnUnit(range)), Write(ctx, spill_scopes(ctx.scopes, 1)))

\* Context::assert
assert(a, range, ctx) ==
    LET check(va) ==
            IF ~IsOk(va) THEN va
            ELSE IF ~va.out.v THEN Ret(Err(Error1("AssertFailed", a.range)), va.ctx)
            ELSE Ret(Ok(ReturnUnit(range)), va.ctx)
    IN  check(eval_to_bool(a, ctx))

\* Context::assert_eq
assert_eq(a, b, range, ctx) ==
    LET check(r) ==
            IF ~IsOk(r) THEN r
            ELSE IF ~Val_eq(r.out.v[1].val, r.out.v[2].val)
            THEN Ret(Err(Error2("AssertEqFailed", r.out.v[1], r.out.v[2])), r.ctx)
            ELSE Ret(Ok(ReturnUnit(range)), r.ctx)
    IN  check(eval_to_val_both(a, b, ctx))

\* the match of Context::eval_ast
Dispatch(ast, r, ctx) ==
    CASE ast.typ = "Empty" -> Ret(Ok(ReturnUnit(r)), ctx)
      [] ast.typ = "Error" -> Ret(Err(Error1("Parsing", r)), ctx)
      [] ast.typ \in {"Val", "Ident"} -> expr(ast, r, ctx)
      [] ast.typ = "Block" -> block(ast.asts, r, ctx)
      [] ast.typ = "IfExpr" -> if_expr(ast, r, ctx)
      [] ast.typ = "ForLoop" -> for_loop(ast, r, ctx)
      [] ast.typ = "FunDef" -> fun_def(ast.id, ast.params, ast.block, r, ctx)
      [] ast.typ = "FunCall" -> fun_call(ast.id, ast.args, r, ctx)
      [] ast.typ = "VarDef" -> var_def(ast.id, ast.a, ast.mutable, r, ctx)
      [] ast.typ = "Assign" -> assign(ast.id, ast.a, r, ctx)
      [] ast.typ = "AddAssign" -> add_assign(ast.id, ast.a, r, ctx)
      [] ast.typ = "SubAssign" -> sub_assign(ast.id, ast.a, r, ctx)
      [] ast.typ = "MulAssign" -> mul_assign(ast.id, ast.a, r, ctx)
      [] ast.typ = "DivAssign" -> div_assign(ast.id, ast.a, r, ctx)
      [] ast.typ = "RangeEx" -> range_ex(ast.a, ast.b, r, ctx)
      [] ast.typ = "RangeIn" -> range_in(ast.a, ast.b, r, ctx)
      [] ast.typ = "Neg" -> neg(ast.a, r, ctx)
      [] ast.typ = "Add" -> add(ast.a, ast.b, r, ctx)
      [] ast.typ = "Sub" -> sub(ast.a, ast.b, r, ctx)
      [] ast.typ = "Mul" -> mul(ast.a, ast.b, r, ctx)
      [] ast.typ = "Div" -> div(ast.a, ast.b, r, ctx)
      [] ast.typ = "IntDiv" -> int_div(ast.a, ast.b, r, ctx)
      [] ast.typ = "Rem" -> rem(ast.a, ast.b, r, ctx)
      [] ast.typ = "Pow" -> pow(ast.a, ast.b, r, ctx)
      [] ast.typ = "Eq" -> eq(ast.a, ast.b, r, ctx)
      [] ast.typ = "Ne" -> ne(ast.a, ast.b, r, ctx)
      [] ast.typ = "Lt" -> lt(ast.a, ast.b, r, ctx)
      [] ast.typ = "Le" -> le(ast.a, ast.b, r, ctx)
      [] ast.typ = "Gt" -> gt(ast.a, ast.b, r, ctx)
      [] ast.typ = "Ge" -> ge(ast.a, ast.b, r, ctx)
      [] ast.typ = "Min" -> min(ast.args, r, ctx)
      [] ast.typ = "Max" -> max(ast.args, r, ctx)
      [] ast.typ = "Or" -> or(ast.a, ast.b, r, ctx)
      [] ast.typ = "And" -> and(ast.a, ast.b, r, ctx)
      [] ast.typ = "Not" -> not(ast.a, r, ctx)
      [] ast.typ = "Factorial" -> factorial(ast.a, r, ctx)
      [] ast.typ = "Clamp" -> clamp(ast.num, ast.min, ast.max, r, ctx)
      [] ast.typ = "Print" -> print(ast.args, r, ctx)
      [] ast.typ = "Println" -> println(ast.args, r, ctx)
      [] ast.typ = "Spill" -> spill(r, ctx)
      [] ast.typ = "Assert" -> assert(ast.a, r, ctx)
      [] ast.typ = "AssertEq" -> assert_eq(ast.a, ast.b, r, ctx)

\* Context::eval_ast
eval_ast(ast, ctx) ==
    LET exit(r) == Ret(r.out, Logged(r.ctx, Exit(ast, r.out, r.ctx)))
        closure(r) == Ret(Normalize(r.out), r.ctx)
    IN  exit(closure(Dispatch(ast, ast.range, Logged(ctx, Enter(ast, ctx)))))

\* Context::eval
eval(ast, ctx) ==
    LET val(r) ==
            IF ~IsOk(r) THEN r
            ELSE IF r.out.v.typ = "Val" THEN Ret(Ok(Some(r.out.v.v.val)), r.ctx)
            ELSE Ret(Ok(None), r.ctx)
    IN  val(eval_ast(ast, ctx))

\* every statement is evaluated, whatever the outcome of the ones before it
eval_all_keep_going(asts, ctx) ==
    LET last(o) == eval(Last(asts), o.ctx)
    IN  IF Len(asts) = 0 THEN Ret(Err([e |-> "MissingExpr"]), ctx)
        ELSE last(eval_others(Front(asts), 1, ctx))

\* Context::eval_all
eval_all(asts, ctx) ==
    LET last(o) == IF ~IsOk(o) THEN o ELSE eval(Last(asts), o.ctx)
    IN  IF Len(asts) = 0 THEN Ret(Err([e |-> "MissingExpr"]), ctx)
        ELSE last(eval_others(Front(asts), 1, ctx))

(***************************************************************************)
(* The programs the evaluator is run on.  A span is the place the text     *)
(* has in the source of the program.                                       *)
(***************************************************************************)
MaxScopes == 2
MaxOut == 1

Lit(v, p) == AstVal(v, pos(p))
DivByZero(p) == Ast2("Div", Lit(Val_Int(1), p), Lit(Val_Int(0), p + 4), CRange(p, p + 5))
WriteOne(p) == AstN("Print", <<Lit(Val_Int(1), p + 6)>>, CRange(p, p + 8))

\* an operand at offset p: `true`, `false`, `1`, `1 / 0`,
\* `{ print(1); true }`, `{ print(1); 1 }`
Operand(kind, p) ==
    CASE kind = "t" -> AstVal(Val_Bool(TRUE), CRange(p, p + 4))
      [] kind = "f" -> AstVal(Val_Bool(FALSE), CRange(p, p + 5))
      [] kind = "one" -> Lit(Val_Int(1), p)
      [] kind = "err" -> DivByZero(p)
      [] kind = "pt" -> AstBlock(<<WriteOne(p + 2),
                                   AstVal(Val_Bool(TRUE), CRange(p + 12, p + 16))>>,
                                 CRange(p, p + 18))
      [] kind = "p1" -> AstBlock(<<WriteOne(p + 2), Lit(Val_Int(1), p + 12)>>,
                                 CRange(p, p + 15))

BoolKinds == {"t", "f", "err", "pt"}
NumKinds == {"one", "err", "p1"}

\* a statement at offset p: `1`, `1 / 0`
Stmts(ks, p) == [i \in 1..Len(ks) |-> Operand(ks[i], p + 10 * i)]
StmtKinds == {"one", "err"}
MaxStmts == 2
Bodies == UNION {[1..n -> StmtKinds] : n \in 0..MaxStmts}

BinPrograms ==
    {<<Ast2(op, Operand(k1, 0), Operand(k2, 20), CRange(0, 40))>> :
        op \in {"And", "Or"}, k1 \in BoolKinds \ {"pt"}, k2 \in BoolKinds}
    \cup {<<Ast2(op, Operand(k1, 0), Operand(k2, 20), CRange(0, 40))>> :
        op \in {"Add", "Lt"}, k1 \in StmtKinds, k2 \in StmtKinds}

\* `fun f(a, b) { a }`
DefF ==
    AstFunDef(IdentRange("f", pos(6)),
              <<IdentRange("a", pos(8)), IdentRange("b", pos(11))>>,
              Block(<<AstIdent("a", pos(16))>>, CRange(14, 19)), CRange(2, 19))

\* `clamp(k1, k2, k3)`, `print(k1, k2)`, `min(k1, k2)`,
\* `{ fun f(a, b) { a }; f(k1, k2) }`
ArgPrograms ==
    {<<AstClamp(Operand(k1, 6), Operand(k2, 26), Operand(k3, 46), CRange(0, 66))>> :
        k1 \in StmtKinds, k2 \in StmtKinds, k3 \in StmtKinds}
    \cup {<<AstN(f, <<Operand(k1, 6), Operand(k2, 26)>>, CRange(0, 46))>> :
        f \in {"Print", "Min"}, k1 \in StmtKinds, k2 \in StmtKinds}
    \cup {<<AstBlock(<<DefF,
                       AstFunCall(IdentRange("f", pos(21)),
                                  <<Operand(k1, 26), Operand(k2, 46)>>, CRange(21, 66))>>,
                     CRange(0, 68))>> :
        k1 \in NumKinds, k2 \in NumKinds}

\* `{ s1; s2 }`, `for i in 0..2 { s1; s2 }`, `{ fun g() { s1; s2 }; g() }`
BlockPrograms ==
    {<<AstBlock(Stmts(b, 0), CRange(0, 50))>> : b \in Bodies}
    \cup {<<AstForLoop(IdentRange("i", pos(4)),
                       Ast2("RangeEx", Lit(Val_Int(0), 9), Lit(Val_Int(2), 12), CRange(9, 13)),
                       Block(Stmts(b, 10), CRange(15, 60)), CRange(0, 60))>> :
            b \in Bodies}
    \cup {<<AstBlock(<<AstFunDef(IdentRange("g", pos(6)), <<>>,
                                 Block(Stmts(b, 10), CRange(10, 60)), CRange(2, 60)),
                       AstFunCall(IdentRange("g", pos(62)), <<>>, CRange(62, 65))>>,
                     CRange(0, 67))>> :
            b \in Bodies}

\* `s1; s2` and `s1; s2; print(1)`, the empty program among them
TopPrograms ==
    {Stmts(b, 0) : b \in Bodies} \cup {Append(Stmts(b, 0), WriteOne(40)) : b \in Bodies}

Programs == BinPrograms \cup ArgPrograms \cup BlockPrograms \cup TopPrograms

NoOutcome == [st |-> "none"]

Init ==
    /\ scopes = <<Scope_default>>
    /\ stdout = ""
    /\ log = <<>>
    /\ cur = <<>>
    /\ ret = NoOutcome
    /\ overflow_checks \in BOOLEAN
    /\ args = <<>>
    /\ out = NoOutcome
    /\ fn = "eval"
    /\ errors = <<>>

\* Context::eval_all on the statements asts
EvalAll(asts) ==
    /\ ret.st # "panic"
    /\ Len(scopes) < MaxScopes
    /\ Len(stdout) < MaxOut
    /\ LET leaves(r) ==
               /\ scopes' = r.ctx.scopes
               /\ stdout' = r.ctx.stdout
               /\ log' = r.ctx.log
               /\ ret' = r.out
       IN  leaves(eval_all(asts, Context(scopes, stdout, <<>>)))
    /\ cur' = asts
    /\ UNCHANGED <<overflow_checks, args, out, fn, errors>>

Next == \E asts \in Programs : EvalAll(asts)

Spec == Init /\ [][Next]_vars

(***************************************************************************)
(* The programs that declare, assign and print.  The spans are those of    *)
(* the text given with each program.                                       *)
(***************************************************************************)
\* `val x = v` / `var x = v` at offset p
VarDefAt(p, mutable, v) ==
    AstVarDef(IdentRange("x", pos(p + 4)), Lit(Val_Int(v), p + 8), mutable, CRange(p, p + 9))

\* `x = w` / `x = 1 / 0` at offset p
AssignAt(p, kind, w) ==
    LET assign_to(b) == AstAssign("Assign", IdentRange("x", pos(p)), b, CRange(p, b.range.end))
    IN  assign_to(IF kind = "err" THEN DivByZero(p + 4) ELSE Lit(Val_Int(w), p + 4))

\* `fun a(i: int) { }` / `fun a() { }` at offset p
FunDefAt(p, with_param) ==
    LET q == IF with_param THEN p + 14 ELSE p + 8
    IN  AstFunDef(IdentRange("a", pos(p + 4)),
                  IF with_param THEN <<IdentRange("i", pos(p + 6))>> ELSE <<>>,
                  Block(<<>>, CRange(q, q + 3)), CRange(p, q + 3))

\* `val x = 2; x = 4`, `val x = 2; { x = 4 }`, `var x = 2; { x = 7 }; x`,
\* `{ val x = 7 }; println(x)`, `{ val x = 7; println(x); x }`,
\* `val x = 1; val x = 2`, `fun a(i: int) { }; fun a() { }`
ScopePrograms ==
    {<<VarDefAt(0, m, 2), AssignAt(11, k, 4)>> : m \in BOOLEAN, k \in StmtKinds}
    \cup {<<VarDefAt(0, m, 2), AstBlock(<<AssignAt(13, k, 4)>>, CRange(11, 20))>> :
            m \in BOOLEAN, k \in StmtKinds}
    \cup {<<VarDefAt(0, m, 2), AstBlock(<<AssignAt(13, k, 7)>>, CRange(11, 20)),
            AstIdent("x", pos(22))>> : m \in BOOLEAN, k \in StmtKinds}
    \cup {<<AstBlock(<<VarDefAt(2, m, 7)>>, CRange(0, 13)),
            AstN("Println", <<AstIdent("x", pos(23))>>, CRange(15, 25))>> : m \in BOOLEAN}
    \cup {<<AstBlock(<<VarDefAt(2, m, 7),
                       AstN("Println", <<AstIdent("x", pos(21))>>, CRange(13, 23)),
                       AstIdent("x", pos(25))>>, CRange(0, 28))>> : m \in BOOLEAN}
    \cup {<<VarDefAt(0, m1, 1), VarDefAt(11, m2, 2)>> : m1 \in BOOLEAN, m2 \in BOOLEAN}
    \cup {<<FunDefAt(0, p1), FunDefAt(IF p1 THEN 19 ELSE 13, p2)>> :
            p1 \in BOOLEAN, p2 \in BOOLEAN}

\* the arguments of a print at offset p: `1`, `true`, `1.5`
PrintArg(kind, p) ==
    CASE kind = "one" -> Lit(Val_Int(1), p)
      [] kind = "t" -> AstVal(Val_Bool(TRUE), CRange(p, p + 4))
      [] kind = "f15" -> AstVal(Val_Float(Fin(FUnit + FUnit \div 2)), CRange(p, p + 3))

PrintArgs == UNION {[1..n -> {"one", "t", "f15"}] : n \in 0..MaxStmts}

\* `print(a1, ..)` / `println(a1, ..)` at offset p
PrintAt(f, ks, p) ==
    AstN(f, [i \in 1..Len(ks) |-> PrintArg(ks[i], p + 2 + 6 * i)], CRange(p, p + 9 + 6 * Len(ks)))

\* `print(..)`, `println(..)`, `var x = 2; print(..); x = 4; println(x); spill()`,
\* `{ val x = 7; spill() }`
PrintPrograms ==
    {<<PrintAt(f, ks, 0)>> : f \in {"Print", "Println"}, ks \in PrintArgs}
    \cup {<<VarDefAt(0, TRUE, 2), PrintAt(f, ks, 11), AssignAt(41, "one", 4),
            AstN("Println", <<AstIdent("x", pos(56))>>, CRange(48, 58)),
            Ast("Spill", <<>>, CRange(60, 67))>> :
                f \in {"Print", "Println"}, ks \in {a \in PrintArgs : Len(a) <= 2}}
    \cup {<<AstBlock(<<VarDefAt(2, m, 7), Ast("Spill", <<>>, CRange(13, 20))>>,
                     CRange(0, 22))>> : m \in BOOLEAN}

ScopeNext == \E asts \in ScopePrograms \cup PrintPrograms : EvalAll(asts)

ScopeSpec == Init /\ [][ScopeNext]_vars

(***************************************************************************)
(* The programs of the control flow: calls of functions, if, for, the      *)
(* compound assignments and spill.                                         *)
(***************************************************************************)
Spill(p) == Ast("Spill", <<>>, CRange(p, p + 7))

\* `val x = 1; spill()`, `val x = 1; { val x = 2; spill() }`,
\* `val x = 1; { val y = 2; spill() }`
SpillPrograms ==
    {<<VarDefAt(0, m, 1), Spill(11)>> : m \in BOOLEAN}
    \cup {<<VarDefAt(0, m, 1),
            AstBlock(<<AstVarDef(IdentRange(n, pos(17)), Lit(Val_Int(2), 21), m, CRange(13, 22)),
                       Spill(24)>>, CRange(11, 33))>> : m \in BOOLEAN, n \in {"x", "y"}}

\* `{ fun h(a, ..) { print(1) }; h(k1, ..) }` with np parameters
CallArgs == UNION {[1..n -> NumKinds] : n \in 0..MaxStmts}
CallPrograms ==
    {<<AstBlock(<<AstFunDef(IdentRange("h", pos(6)),
                            [i \in 1..np |-> IdentRange(<<"a", "b">>[i], pos(6 + 2 * i))],
                            Block(<<WriteOne(14)>>, CRange(12, 24)), CRange(2, 24)),
                  AstFunCall(IdentRange("h", pos(26)),
                             [i \in 1..Len(ks) |-> Operand(ks[i], 10 + 20 * i)],
                             CRange(26, 50 + 20 * Len(ks)))>>,
                CRange(0, 52 + 20 * Len(ks)))>> : np \in 0..2, ks \in CallArgs}

\* the body of f: `x`, `x = 5`, `var x = 5; x = 6`
FrameBody(body) ==
    CASE body = "read" -> <<AstIdent("x", pos(12))>>
      [] body = "write" -> <<AssignAt(12, "one", 5)>>
      [] body = "own" -> <<VarDefAt(12, TRUE, 5), AssignAt(23, "one", 6)>>
DefFrameF(body) ==
    AstFunDef(IdentRange("f", pos(6)), <<>>, Block(FrameBody(body), CRange(10, 30)),
              CRange(2, 30))
CallF(p) == AstFunCall(IdentRange("f", pos(p)), <<>>, CRange(p, p + 3))

\* `{ fun f() { .. }; fun g() { var x = 1; f(); x }; g() }`,
\* `{ fun f() { .. }; var x = 1; f(); x }`, `var x = 1; { fun f() { .. }; f() }; x`
FramePrograms ==
    {<<AstBlock(<<DefFrameF(body),
                  AstFunDef(IdentRange("g", pos(36)), <<>>,
                            Block(<<VarDefAt(42, TRUE, 1), CallF(53), AstIdent("x", pos(58))>>,
                                  CRange(40, 61)), CRange(32, 61)),
                  AstFunCall(IdentRange("g", pos(63)), <<>>, CRange(63, 66))>>,
                CRange(0, 68))>> : body \in {"read", "write", "own"}}
    \cup {<<AstBlock(<<DefFrameF(body), VarDefAt(32, TRUE, 1), CallF(43),
                       AstIdent("x", pos(48))>>, CRange(0, 51))>> :
            body \in {"read", "write", "own"}}
    \cup {<<VarDefAt(70, TRUE, 1),
            AstBlock(<<DefFrameF(body), CallF(32)>>, CRange(0, 37)),
            AstIdent("x", pos(81))>> : body \in {"read", "write", "own"}}

\* the case k of an if: `if c { k; k + 1 }`, its condition one of `true`,
\* `false`, `1 / 0`, `1`
IfCase(kind, k) ==
    CondBlock(Operand(kind, 100 * k + 3),
              <<Lit(Val_Int(k), 100 * k + 12), Lit(Val_Int(k + 1), 100 * k + 15)>>,
              CRange(100 * k, 100 * k + 18))
IfConds == UNION {[1..n -> {"t", "f", "err", "one"}] : n \in 1..MaxStmts}

\* `if c1 { 1; 2 } else if c2 { 2; 3 }` and the same with `else { 1 / 0; 9 }`
\* or `else { 9 }`
IfElses(n) ==
    {None,
     Some(Block(<<Lit(Val_Int(9), 100 * n + 30)>>, CRange(100 * n + 28, 100 * n + 40))),
     Some(Block(<<DivByZero(100 * n + 30), Lit(Val_Int(9), 100 * n + 37)>>,
                CRange(100 * n + 28, 100 * n + 40)))}
IfPrograms ==
    UNION {{<<AstIfExpr([k \in 1..Len(cs) |-> IfCase(cs[k], k)], els,
                        CRange(100, 100 * Len(cs) + 40))>> : els \in IfElses(Len(cs))} :
            cs \in IfConds}

\* the body of a loop: nothing, `i`, `i; 7`, `7; 1 / 0`
ForBody(kind) ==
    CASE kind = "none" -> <<>>
      [] kind = "i" -> <<AstIdent("i", pos(22))>>
      [] kind = "i7" -> <<AstIdent("i", pos(22)), Lit(Val_Int(7), 25)>>
      [] kind = "err" -> <<Lit(Val_Int(7), 22), DivByZero(25)>>

\* what the loop runs over: `a..b`, `a..=b`, `1`, `1 / 0`
ForIters ==
    {Ast2(op, Lit(Val_Int(a), 9), Lit(Val_Int(b), 13), CRange(9, 14)) :
        op \in {"RangeEx", "RangeIn"}, a \in 0..MaxStmts, b \in 0..MaxStmts}
    \cup {Lit(Val_Int(1), 9), DivByZero(9)}

\* `for i in a..b { .. }`
ForPrograms ==
    {<<AstForLoop(IdentRange("i", pos(4)), iter, Block(ForBody(kind), CRange(20, 32)),
                  CRange(0, 32))>> : iter \in ForIters, kind \in {"none", "i", "i7", "err"}}

\* the right-hand side of a compound assignment at offset p: `1`, `0`,
\* `1 / 0`, `1.5`
OpRhs(kind, p) ==
    CASE kind = "zero" -> Lit(Val_Int(0), p)
      [] kind = "f15" -> AstVal(Val_Float(Fin(FUnit + FUnit \div 2)), CRange(p, p + 3))
      [] OTHER -> Operand(kind, p)

\* `x += e`, `x -= e`, `x *= e`, `x /= e` at offset p
OpAssignAt(p, typ, kind) ==
    AstAssign(typ, IdentRange("x", pos(p)), OpRhs(kind, p + 5),
              CRange(p, OpRhs(kind, p + 5).range.end))

OpAssignTypes == {"AddAssign", "SubAssign", "MulAssign", "DivAssign"}
OpValues == {Val_Int(1), Val_Int(IntMax), Val_Float(Fin(FUnit + FUnit \div 2))}

\* `x += e` and `var x = v; x += e`, `val x = v; x += e`
OpPrograms ==
    {<<OpAssignAt(11, typ, kind)>> :
        typ \in OpAssignTypes, kind \in {"one", "zero", "err", "f15"}}
    \cup {<<AstVarDef(IdentRange("x", pos(4)), AstVal(v, pos(8)), m, CRange(0, 9)),
            OpAssignAt(11, typ, kind)>> :
            v \in OpValues, m \in BOOLEAN, typ \in OpAssignTypes,
            kind \in {"one", "zero", "err", "f15"}}

ControlPrograms ==
    SpillPrograms \cup CallPrograms \cup FramePrograms \cup IfPrograms \cup ForPrograms
        \cup OpPrograms

\* every program is run on a Context that nothing was run on
ControlNext ==
    \E asts \in ControlPrograms : scopes = <<Scope_default>> /\ log = <<>> /\ EvalAll(asts)

ControlSpec == Init /\ [][ControlNext]_vars

(***************************************************************************)
(* The signatures of the builtin functions and the choice of one of them   *)
(* for the types of the arguments of a call.                               *)
(***************************************************************************)
FunSignature(call, params, repetition, return_type) ==
    [call |-> call, params |-> params, repetition |-> repetition,
     return_type |-> return_type]

\* the `fun_signatures!` lists: `T` is One, `..T` ZeroOrMore, `...T` OneOrMore
One(call, params, return_type) == FunSignature(call, params, "One", return_type)

Signatures(builtin) ==
    CASE builtin = "pow" -> <<One("PowInt", <<"Int", "Int">>, "Int"),
                              One("PowFloat", <<"Float", "Float">>, "Float")>>
      [] builtin = "ln" -> <<One("Ln", <<"Float">>, "Float")>>
      [] builtin = "sqrt" -> <<One("Sqrt", <<"Float">>, "Float")>>
      [] builtin = "log" -> <<One("Log", <<"Float", "Float">>, "Float")>>
      [] builtin = "ncr" -> <<One("Ncr", <<"Int", "Int">>, "Int")>>
      [] builtin = "to_deg" -> <<One("ToDeg", <<"Float">>, "Float")>>
      [] builtin = "to_rad" -> <<One("ToRad", <<"Float">>, "Float")>>
      [] builtin = "sin" -> <<One("Sin", <<"Float">>, "Float")>>
      [] builtin = "cos" -> <<One("Cos", <<"Float">>, "Float")>>
      [] builtin = "tan" -> <<One("Tan", <<"Float">>, "Float")>>
      [] builtin = "asin" -> <<One("Asin", <<"Float">>, "Float")>>
      [] builtin = "acos" -> <<One("Acos", <<"Float">>, "Float")>>
      [] builtin = "atan" -> <<One("Atan", <<"Float">>, "Float")>>
      [] builtin = "gcd" -> <<One("Gcd", <<"Int", "Int">>, "Int")>>
      [] builtin = "min" -> <<FunSignature("MinInt", <<"Int">>, "OneOrMore", "Int"),
                              FunSignature("MinFloat", <<"Float">>, "OneOrMore", "Int")>>
      [] builtin = "max" -> <<FunSignature("MaxInt", <<"Int">>, "OneOrMore", "Int"),
                              FunSignature("MaxFloat", <<"Float">>, "OneOrMore", "Int")>>
      [] builtin = "clamp" -> <<One("ClampInt", <<"Int", "Int", "Int">>, "Int"),
                                One("ClampFloat", <<"Float", "Float", "Float">>, "Float")>>
      [] builtin = "abs" -> <<One("AbsInt", <<"Int">>, "Int"),
                              One("AbsFloat", <<"Float">>, "Float")>>
      [] builtin = "print" -> <<FunSignature("Print", <<"Any">>, "ZeroOrMore", "Unit")>>
      [] builtin = "println" -> <<FunSignature("Println", <<"Any">>, "ZeroOrMore", "Unit")>>
      [] builtin = "assert" -> <<One("Assert", <<"Bool">>, "Unit")>>
      [] builtin = "assert_eq" -> <<One("AssertEq", <<"Int", "Int">>, "Unit"),
                                    One("AssertEq", <<"Float", "Float">>, "Unit"),
                                    One("AssertEq", <<"Bool", "Bool">>, "Unit"),
                                    One("AssertEq", <<"Str", "Str">>, "Unit"),
                                    One("AssertEq", <<"Range", "Range">>, "Unit"),
                                    One("AssertEq", <<"Unit", "Unit">>, "Unit")>>

BuiltinFuns ==
    {"pow", "ln", "sqrt", "log", "ncr", "to_deg", "to_rad", "sin", "cos", "tan", "asin",
     "acos", "atan", "gcd", "min", "max", "clamp", "abs", "print", "println", "assert",
     "assert_eq"}

\* the number of arguments a signature takes
arity_accepts(sig, n) ==
    CASE sig.repetition = "One" -> n = Len(sig.params)
      [] sig.repetition = "ZeroOrMore" -> n >= Len(sig.params) - 1
      [] sig.repetition = "OneOrMore" -> n >= Len(sig.params)

\* the parameter of the k-th argument: the last parameter repeats
param_of(sig, k) == sig.params[IF k < Len(sig.params) THEN k ELSE Len(sig.params)]

\* an argument has to have the type of the parameter
type_accepts_exact(param, arg) == param = arg \/ param = "Any"

\* an argument of the type of the parameter, any argument for Any, an Int
\* for a Float
type_accepts(param, arg) ==
    param = arg \/ param = "Any" \/ (param = "Float" /\ arg = "Int")

signature_matches(sig, tys) ==
    /\ arity_accepts(sig, Len(tys))
    /\ \A k \in 1..Len(tys) : type_accepts(param_of(sig, k), tys[k])

\* the first signature of sigs[k..] that matches
RECURSIVE first_signature(_, _, _)
first_signature(sigs, k, tys) ==
    IF k > Len(sigs) THEN None
    ELSE IF signature_matches(sigs[k], tys) THEN Some(sigs[k])
    ELSE first_signature(sigs, k + 1, tys)

\* the variant of the builtin for a call with arguments of the types tys
resolve_builtin(builtin, tys) ==
    LET found(sig) ==
            IF sig.some THEN Ok(sig.v)
            ELSE Err([e |-> "NoMatchingBuiltinSignature", name |-> builtin,
                      signatures |-> Signatures(builtin), args |-> tys])
    IN  found(first_signature(Signatures(builtin), 1, tys))

(***************************************************************************)
(* The resolution of a name when the tree is checked.  A scope is the      *)
(* names declared in it with the spans of their declarations; the scope of *)
(* a function is a barrier.                                                *)
(***************************************************************************)
LexicalScope(barrier, names) == [parent_function_barrier |-> barrier, vars |-> names]

\* the innermost scope of sc[1..k] that has the name, 0 when there is none
RECURSIVE find_name(_, _, _)
find_name(sc, name, k) ==
    IF k = 0 THEN 0
    ELSE IF name \in DOMAIN sc[k].vars THEN k
    ELSE find_name(sc, name, k - 1)

\* a name found in the scope k is reached across the barrier of a function
crosses_barrier(sc, k) == \E j \in (k + 1)..Len(sc) : sc[j].parent_function_barrier

\* the scope k is in the frame of the globals: no function encloses it
is_global(sc, k) == \A j \in 1..k : ~sc[j].parent_function_barrier

\* the resolution accepts every name it finds
resolve_name_unchecked(sc, id) ==
    IF find_name(sc, id.ident, Len(sc)) = 0 THEN Err(ErrorId("UndefinedVar", id))
    ELSE Ok(sc[find_name(sc, id.ident, Len(sc))].vars[id.ident])

resolve_name(sc, id) ==
    LET found(k) ==
            IF k = 0 THEN Err(ErrorId("UndefinedVar", id))
            ELSE IF crosses_barrier(sc, k) /\ ~is_global(sc, k)
            THEN Err(Error2("CapturingFromDynamicScope", sc[k].vars[id.ident], id.range))
            ELSE Ok(sc[k].vars[id.ident])
    IN  found(find_name(sc, id.ident, Len(sc)))

declare(sc, id) == [sc EXCEPT ![Len(sc)].vars = (id.ident :> id.range) @@ @]

RECURSIVE check_ast(_, _)
RECURSIVE check_all(_, _, _)

\* the statements asts[k..] in the scopes sc
check_all(asts, k, sc) ==
    LET next(r) == IF IsOk(r) THEN check_all(asts, k + 1, r.ctx) ELSE r
    IN  IF k > Len(asts) THEN Ret(Ok(TRUE), sc) ELSE next(check_ast(asts[k], sc))

\* the scope is left when its statements are checked
leave_scope(r) == IF IsOk(r) THEN Ret(r.out, Front(r.ctx)) ELSE r

params_scope(params) ==
    LexicalScope(TRUE, [n \in {params[i].ident : i \in DOMAIN params} |->
                            params[CHOOSE i \in DOMAIN params : params[i].ident = n].range])

check_ast(ast, sc) ==
    CASE ast.typ = "Ident" ->
            Ret(resolve_name(sc, IdentRange(ast.id, ast.range)), sc)
      [] ast.typ = "VarDef" ->
            LET def(r) == IF IsOk(r) THEN Ret(r.out, declare(r.ctx, ast.id)) ELSE r
            IN  def(check_ast(ast.a, sc))
      [] ast.typ = "Block" ->
            leave_scope(check_all(ast.asts, 1, Append(sc, LexicalScope(FALSE, <<>>))))
      [] ast.typ = "FunDef" ->
            leave_scope(check_all(ast.block.asts, 1,
                                  Append(declare(sc, ast.id), params_scope(ast.params))))
      [] ast.typ = "FunCall" ->
            LET args_of(f) == IF f.st = "ok" THEN check_all(ast.args, 1, sc) ELSE Ret(f, sc)
            IN  args_of(resolve_name(sc, ast.id))
      [] OTHER -> Ret(Ok(TRUE), sc)

\* the check of the statements of a program
check(asts) ==
    LET done(r) == IF IsOk(r) THEN Ok(TRUE) ELSE r.out
    IN  done(check_all(asts, 1, <<LexicalScope(FALSE, <<>>)>>))

(***************************************************************************)
(* The lexer.  chars is the text, read the number of characters taken      *)
(* from it and cursor the number of calls of Lexer::next.                  *)
(***************************************************************************)
Digits == {"0", "1", "2", "3", "4", "5", "6", "7", "8", "9"}
IdentChars ==
    Digits \cup {"_"}
    \cup {"a", "b", "c", "d", "e", "f", "g", "h", "i", "j", "k", "l", "m", "n", "o", "p",
          "q", "r", "s", "t", "u", "v", "w", "x", "y", "z"}
    \cup {"A", "B", "C", "D", "E", "F", "G", "H", "I", "J", "K", "L", "M", "N", "O", "P",
          "Q", "R", "S", "T", "U", "V", "W", "X", "Y", "Z"}

Token_op(op, range) == [t |-> "op", op |-> op, range |-> range]
Token_par(par, range) == [t |-> "par", par |-> par, range |-> range]
Token_pct(pct, range) == [t |-> "pct", pct |-> pct, range |-> range]
Token_kw(kw, range) == [t |-> "kw", kw |-> kw, range |-> range]
Token_expr(e, range) == [t |-> "expr", expr |-> e, range |-> range]

\* Lexer::new
\* errors are the errors that the lexer adds to those of the Context
Lexer_new(input) ==
    [chars |-> input, read |-> 0, cursor |-> 0, literal |-> <<>>, tokens |-> <<>>,
     errors |-> <<>>]

\* Lexer::peek
Lexer_peek(l) == IF l.read < Len(l.chars) THEN Some(l.chars[l.read + 1]) ELSE None

\* Lexer::next: the cursor moves at the end of the text, too
Lexer_next(l) ==
    [l EXCEPT !.cursor = @ + 1, !.read = IF @ < Len(l.chars) THEN @ + 1 ELSE @]

\* Lexer::pos
Lexer_pos(l) == IF l.cursor = 0 THEN 0 ELSE l.cursor - 1

\* the text and the decimal value of a literal
RECURSIVE Text(_)
Text(literal) == IF literal = <<>> THEN "" ELSE Head(literal) \o Text(Tail(literal))

DigitValue(c) == CHOOSE d \in 0..9 : ToString(d) = c

RECURSIVE Decimal(_, _)
Decimal(literal, acc) ==
    IF literal = <<>> THEN acc ELSE Decimal(Tail(literal), 10 * acc + DigitValue(Head(literal)))

\* `literal.parse::<i128>()`, then `literal.parse::<f64>()`: of the
\* characters of the programs only digits make a number
parse_number(literal, range) ==
    IF \A i \in DOMAIN literal : literal[i] \in Digits
    THEN IF InI128(Decimal(literal, 0))
         THEN Ok(Token_expr(Val_Int(Decimal(literal, 0)), range))
         ELSE Ok(Token_expr(Val_Float(i128_as_f64(Decimal(literal, 0))), range))
    ELSE Err(Error1("InvalidNumberFormat", range))

\* the identifier, or the first character that is none of an identifier
parse_ident(literal, range) ==
    LET bad == {i \in DOMAIN literal : literal[i] \notin IdentChars}
    IN  IF bad = {}
        THEN Ok(Token_expr([typ |-> "Ident", id |-> Text(literal)], range))
        ELSE Err(Error1("InvalidChar",
                        pos(range.start + (CHOOSE i \in bad : \A j \in bad : i <= j) - 1)))

\* the match of Context::end_literal
literal_token(text, literal, range) ==
    CASE text = "true" -> Ok(Token_expr(Val_Bool(TRUE), range))
      [] text = "false" -> Ok(Token_expr(Val_Bool(FALSE), range))
      [] text = "div" -> Ok(Token_op("IntDiv", range))
      [] text = "mod" -> Ok(Token_op("Rem", range))
      [] text = "if" -> Ok(Token_kw("If", range))
      [] text = "else" -> Ok(Token_kw("Else", range))
      [] text = "while" -> Ok(Token_kw("While", range))
      [] text = "for" -> Ok(Token_kw("For", range))
      [] text = "in" -> Ok(Token_kw("In", range))
      [] text = "fun" -> Ok(Token_kw("Fun", range))
      [] text = "val" -> Ok(Token_kw("Val", range))
      [] text = "var" -> Ok(Token_kw("Var", range))
      [] OTHER -> IF literal[1] \in Digits THEN parse_number(literal, range)
                  ELSE parse_ident(literal, range)

\* Context::end_literal
end_literal(l) ==
    LET push(token) ==
            IF token.st = "ok"
            THEN Ret(Ok(TRUE), [l EXCEPT !.literal = <<>>, !.tokens = Append(@, token.v)])
            ELSE Ret(token, l)
    IN  IF l.literal = <<>> THEN Ret(Ok(TRUE), l)
        ELSE push(literal_token(Text(l.literal), l.literal,
                                CRange(Lexer_pos(l) - Len(l.literal), Lexer_pos(l))))

\* Context::new_atom
new_atom(l, token) ==
    LET push(r) ==
            IF IsOk(r) THEN Ret(Ok(TRUE), [r.ctx EXCEPT !.tokens = Append(@, token)]) ELSE r
    IN  push(end_literal(l))

\* Context::two_char_op
two_char_op(l, one, two, expected) ==
    LET both(l1) == new_atom(l1, Token_op(two, CRange(Lexer_pos(l1) - 1, Lexer_pos(l1) + 1)))
    IN  IF Lexer_peek(l) = Some(expected) THEN both(Lexer_next(l))
        ELSE new_atom(l, Token_op(one, pos(Lexer_pos(l))))

\* Context::end_string_literal
end_string_literal(l, start) ==
    Ret(Ok(TRUE),
        [l EXCEPT !.literal = <<>>,
                  !.tokens = Append(@, Token_expr([typ |-> "Str", s |-> Text(l.literal)],
                                                  CRange(start, Lexer_pos(l) + 1)))])

\* the character that the escape sequence `\c` stands for
Escapes ==
    [c \in {"n", "r", "t", "\\", "\"", "0"} |->
        CASE c = "n" -> "\n" [] c = "r" -> "\r" [] c = "t" -> "\t"
          [] c = "0" -> "U+0000" [] OTHER -> c]

\* Context::escape_char after the backslash, c the next character and l
\* the lexer after it: another character than those of Escapes is an
\* error that does not fail
escape_char(c, l) ==
    IF c.some /\ c.v \in DOMAIN Escapes THEN Ret(Ok(Escapes[c.v]), l)
    ELSE Ret(Err([fail |-> FALSE, end_str |-> FALSE,
                  error |-> Error1("InvalidEscape", CRange(Lexer_pos(l) - 1, Lexer_pos(l) + 1))]),
             l)

\* the whitespace after the backslash at the end of a line
RECURSIVE skip_whitespace(_)
skip_whitespace(l) ==
    IF Lexer_peek(l).some /\ Lexer_peek(l).v \in {" ", "\n", "\t", "\r"}
    THEN skip_whitespace(Lexer_next(l))
    ELSE l

\* `while let Some(c) = lexer.next()` of Context::string_literal
RECURSIVE string_chars(_, _, _)
string_chars(c, l, start) ==
    LET go(l1) == string_chars(Lexer_peek(l1), Lexer_next(l1), start)
        ends(e, l1) == IF e.end_str THEN end_string_literal(l1, start) ELSE go(l1)
        failed(e, l1) ==
            IF e.fail
            THEN Ret(Err(e.error), IF e.end_str THEN end_string_literal(l1, start).ctx ELSE l1)
            ELSE ends(e, [l1 EXCEPT !.errors = Append(@, e.error)])
        escaped(r) ==
            IF IsOk(r) THEN go([r.ctx EXCEPT !.literal = Append(@, r.out.v)])
            ELSE failed(r.out.err, r.ctx)
    IN  IF ~c.some THEN Ret(Err(Error1("MissingClosingQuote", pos(start))), l)
        ELSE IF c.v = "\"" THEN end_string_literal(l, start)
        ELSE IF c.v = "\\" /\ Lexer_peek(l) = Some("\n") THEN go(skip_whitespace(Lexer_next(l)))
        ELSE IF c.v = "\\" THEN escaped(escape_char(Lexer_peek(l), Lexer_next(l)))
        ELSE go([l EXCEPT !.literal = Append(@, c.v)])

\* Context::string_literal
string_literal(l) ==
    LET chars(r) ==
            IF IsOk(r) THEN string_chars(Lexer_peek(r.ctx), Lexer_next(r.ctx), Lexer_pos(r.ctx))
            ELSE r
    IN  chars(end_literal(l))

\* the match on the character c of Context::lex
lex_char(c, l, range) ==
    CASE c = "\"" -> string_literal(l)
      [] c \in {" ", "\r"} -> end_literal(l)
      [] c = "\n" -> new_atom(l, Token_pct("Newln", range))
      [] c = "+" -> two_char_op(l, "Add", "AddAssign", "=")
      [] c \in {"-", "U+2212"} -> two_char_op(l, "Sub", "SubAssign", "=")
      [] c = "*" -> two_char_op(l, "Mul", "MulAssign", "=")
      [] c = "/" -> two_char_op(l, "Div", "DivAssign", "=")
      [] c = "%" -> new_atom(l, Token_op("Rem", range))
      [] c = "^" -> new_atom(l, Token_op("Pow", range))
      [] c = "=" -> two_char_op(l, "Assign", "Eq", "=")
      [] c = "<" -> two_char_op(l, "Lt", "Le", "=")
      [] c = ">" -> two_char_op(l, "Gt", "Ge", "=")
      [] c = "|" -> two_char_op(l, "BwOr", "Or", "|")
      [] c = "&" -> two_char_op(l, "BwAnd", "And", "&")
      [] c = "!" -> two_char_op(l, "Bang", "Ne", "=")
      [] c = "(" -> new_atom(l, Token_par("RoundOpen", range))
      [] c = "[" -> new_atom(l, Token_par("SquareOpen", range))
      [] c = "{" -> new_atom(l, Token_par("CurlyOpen", range))
      [] c = ")" -> new_atom(l, Token_par("RoundClose", range))
      [] c = "]" -> new_atom(l, Token_par("SquareClose", range))
      [] c = "}" -> new_atom(l, Token_par("CurlyClose", range))
      [] c = "," -> new_atom(l, Token_pct("Comma", range))
      [] c = ";" -> new_atom(l, Token_pct("Semi", range))
      [] OTHER -> Ret(Ok(TRUE), [l EXCEPT !.literal = Append(@, c)])

\* `while let Some(c) = lexer.next()` of Context::lex and the literal that
\* ends the text
RECURSIVE lex_chars(_, _)
lex_chars(c, l) ==
    LET next(r) == IF IsOk(r) THEN lex_chars(Lexer_peek(r.ctx), Lexer_next(r.ctx)) ELSE r
        tokens(r) == IF IsOk(r) THEN Ret(Ok(r.ctx.tokens), r.ctx) ELSE r
    IN  IF c.some THEN next(lex_char(c.v, l, pos(Lexer_pos(l)))) ELSE tokens(end_literal(l))

\* Context::lex
lex(string) == lex_chars(Lexer_peek(Lexer_new(string)), Lexer_next(Lexer_new(string))).out

(***************************************************************************)
(* The grouper: the brackets of the tokens become groups.  stack is the    *)
(* open brackets with the items found in each, the items of the text at    *)
(* its bottom.                                                             *)
(***************************************************************************)
is_opening(tok) == tok.t = "par" /\ tok.par \in {"RoundOpen", "SquareOpen", "CurlyOpen"}
is_closing(tok) == tok.t = "par" /\ tok.par \in {"RoundClose", "SquareClose", "CurlyClose"}
matches(open, close) ==
    <<open.par, close.par>> \in {<<"RoundOpen", "RoundClose">>, <<"SquareOpen", "SquareClose">>,
                                 <<"CurlyOpen", "CurlyClose">>}

Item_token(tok) == [item |-> "token", token |-> tok]
Item_group(open, close, children) ==
    [item |-> "group", open |-> open, close |-> close, children |-> children]

\* the bracket close ends the group on top of the stack
close_group(stack, close) ==
    LET n == Len(stack)
    IN  [Front(stack) EXCEPT
            ![n - 1].children = Append(@, Item_group(stack[n].open, close, stack[n].children)),
            ![n - 1].warnings = @ \o stack[n].warnings
                \o (IF matches(stack[n].open, close) THEN <<>>
                    ELSE <<Error2("MismatchedParentheses", stack[n].open, close)>>)]

\* a closing bracket closes the group that is open, if any
RECURSIVE group_lenient(_, _, _)
group_lenient(tokens, k, stack) ==
    IF k > Len(tokens)
    THEN IF Len(stack) > 1 THEN Err(Error1("MissingClosingParenthesis", Last(stack).open))
         ELSE Ok(stack[1])
    ELSE IF is_opening(tokens[k])
    THEN group_lenient(tokens, k + 1,
                       Append(stack, [open |-> tokens[k], children |-> <<>>, warnings |-> <<>>]))
    ELSE IF is_closing(tokens[k]) /\ Len(stack) > 1
    THEN group_lenient(tokens, k + 1, close_group(stack, tokens[k]))
    ELSE group_lenient(tokens, k + 1,
                       [stack EXCEPT ![Len(stack)].children = Append(@, Item_token(tokens[k]))])

\* the scan of tokens[k..]
RECURSIVE group_from(_, _, _)
group_from(tokens, k, stack) ==
    IF k > Len(tokens)
    THEN IF Len(stack) > 1 THEN Err(Error1("MissingClosingParenthesis", Last(stack).open))
         ELSE Ok(stack[1])
    ELSE IF is_opening(tokens[k])
    THEN group_from(tokens, k + 1,
                    Append(stack, [open |-> tokens[k], children |-> <<>>, warnings |-> <<>>]))
    ELSE IF is_closing(tokens[k])
    THEN IF Len(stack) = 1 THEN Err(Error1("UnexpectedParenthesis", tokens[k]))
         ELSE group_from(tokens, k + 1, close_group(stack, tokens[k]))
    ELSE group_from(tokens, k + 1,
                    [stack EXCEPT ![Len(stack)].children = Append(@, Item_token(tokens[k]))])

\* Context::group
group(tokens) == group_from(tokens, 1, <<[open |-> None, children |-> <<>>, warnings |-> <<>>]>>)

\* the operand an operator after an operand at the end of the text lacks:
\* the position after the operator
parse(tokens) ==
    IF Len(tokens) >= 2 /\ Last(tokens).t = "op" /\ tokens[Len(tokens) - 1].t = "expr"
    THEN Err(Error1("MissingOperand", pos(Last(tokens).range.end)))
    ELSE Ok(tokens)

\* Context::parse_str
parse_str(string) ==
    LET parsed(tokens, items) == IF items.st # "ok" THEN items ELSE parse(tokens.v)
        grouped(tokens) == IF tokens.st # "ok" THEN tokens ELSE parsed(tokens, group(tokens.v))
    IN  grouped(lex(string))

\* UserFacing::ranges of Error
Error_ranges(err) ==
    CASE err.e = "MissingExpr" -> <<>>
      [] err.e \in {"MissingClosingParenthesis", "UnexpectedParenthesis"} -> <<err.a.range>>
      [] OTHER -> <<err.a>>

(***************************************************************************)
(* The texts, calls and declarations the lexer, the grouper and the        *)
(* checker are run on.  args is the input, fn the operation that was       *)
(* applied and out its outcome.                                            *)
(***************************************************************************)
MaxArgs == 3
MaxSrc == 3

ArgTypes == {"Int", "Float", "Bool", "Char"}
Calls ==
    {[kind |-> "call", builtin |-> b, tys |-> t] :
        b \in BuiltinFuns, t \in UNION {[1..n -> ArgTypes] : n \in 0..MaxArgs}}

\* the texts of at most MaxSrc of these characters, `4 ) + 5)` and
\* `x-=4`; "U+2212" is the one character MINUS SIGN, of three bytes
SourceChars == {"4", "x", " ", "(", ")", "}", "-", "U+2212", "=", "$", "\""}
Sources ==
    {[kind |-> "source", text |-> t] :
        t \in UNION {[1..n -> SourceChars] : n \in 0..MaxSrc}
                \cup {<<"4", " ", ")", " ", "+", " ", "5", ")">>, <<"x", "-", "=", "4">>}}

\* `val a = 3` at offset p
DeclA(p) ==
    AstVarDef(IdentRange("a", pos(p + 4)), Lit(Val_Int(3), p + 8), FALSE, CRange(p, p + 9))

\* `a`, `{ a }` or `outer()` in the body of inner
UseIn(use) ==
    CASE use = "a" -> AstIdent("a", pos(62))
      [] use = "block" -> AstBlock(<<AstIdent("a", pos(62))>>, CRange(60, 65))
      [] use = "call" -> AstFunCall(IdentRange("outer", CRange(62, 67)), <<>>, CRange(62, 69))

\* `[val a = 3;] fun outer() { [val a = 3;] fun inner([a]) { [val a = 3;] use } }`
CaptureProgram(f) ==
    (IF f.global THEN <<DeclA(0)>> ELSE <<>>)
    \o <<AstFunDef(IdentRange("outer", CRange(14, 19)), <<>>,
                   Block((IF f.outer THEN <<DeclA(24)>> ELSE <<>>)
                         \o <<AstFunDef(IdentRange("inner", CRange(38, 43)),
                                        IF f.param THEN <<IdentRange("a", pos(44))>> ELSE <<>>,
                                        Block((IF f.local THEN <<DeclA(49)>> ELSE <<>>)
                                              \o <<UseIn(f.use)>>, CRange(47, 70)),
                                        CRange(34, 70))>>,
                         CRange(22, 72)),
                   CRange(10, 72))>>

Captures ==
    [kind : {"fun"}, global : BOOLEAN, outer : BOOLEAN, param : BOOLEAN, local : BOOLEAN,
     use : {"a", "block", "call"}]

\* the bytes of a character and of a text in UTF-8
Utf8Len(c) == IF c = "U+2212" THEN 3 ELSE 1
RECURSIVE ByteLen(_)
ByteLen(text) == IF text = <<>> THEN 0 ELSE Utf8Len(Head(text)) + ByteLen(Tail(text))

FrontInit ==
    /\ scopes = <<Scope_default>>
    /\ stdout = ""
    /\ log = <<>>
    /\ cur = <<>>
    /\ ret = NoOutcome
    /\ overflow_checks = FALSE
    /\ args \in Calls \cup Sources \cup Captures
    /\ out = NoOutcome
    /\ fn = "none"
    /\ errors = <<>>

\* the operation name gives the outcome o for the input
Run(name, o) ==
    /\ fn = "none"
    /\ fn' = name
    /\ out' = o
    /\ UNCHANGED <<scopes, stdout, log, cur, ret, overflow_checks, args, errors>>

Lex == args.kind = "source" /\ Run("lex", lex(args.text))
Group ==
    /\ args.kind = "source"
    /\ lex(args.text).st = "ok"
    /\ Run("group", group(lex(args.text).v))
ParseStr == args.kind = "source" /\ Run("parse_str", parse_str(args.text))
ResolveBuiltin ==
    args.kind = "call" /\ Run("resolve_builtin", resolve_builtin(args.builtin, args.tys))
Check == args.kind = "fun" /\ Run("check", check(CaptureProgram(args)))

FrontNext ==
    \/ Lex
    \/ Group
    \/ ParseStr
    \/ ResolveBuiltin
    \/ Check

FrontSpec == FrontInit /\ [][FrontNext]_vars

(***************************************************************************)
(* Context::parse_and_eval.  The Context is the scopes, the output and the *)
(* errors; the statements are `e`, `val x = e` and `print(e)` for a        *)
(* literal or a name e.                                                    *)
(***************************************************************************)
\* Context::lex with the lexer it leaves
lex_all(string) == lex_chars(Lexer_peek(Lexer_new(string)), Lexer_next(Lexer_new(string)))

expr_ast(tok) ==
    IF tok.expr.typ = "Ident" THEN AstIdent(tok.expr.id, tok.range)
    ELSE AstVal(tok.expr, tok.range)

is_expr(item) == item.item = "token" /\ item.token.t = "expr"
is_ident(item, name) ==
    is_expr(item) /\ item.token.expr.typ = "Ident" /\ item.token.expr.id = name

\* the statement that the items are
parse_items(items) ==
    CASE Len(items) = 1 /\ is_expr(items[1]) -> Ok(<<expr_ast(items[1].token)>>)
      [] Len(items) = 4 /\ items[1].item = "token" /\ items[1].token.t = "kw"
            /\ items[1].token.kw = "Val" /\ is_expr(items[2]) /\ is_expr(items[4]) ->
            Ok(<<AstVarDef(IdentRange(items[2].token.expr.id, items[2].token.range),
                           expr_ast(items[4].token), FALSE,
                           CRange(items[1].token.range.start, items[4].token.range.end))>>)
      [] Len(items) = 2 /\ is_ident(items[1], "print") /\ items[2].item = "group"
            /\ Len(items[2].children) = 1 /\ is_expr(items[2].children[1]) ->
            Ok(<<AstN("Print", <<expr_ast(items[2].children[1].token)>>,
                      CRange(items[1].token.range.start, items[2].close.range.end))>>)
      [] OTHER -> Err([e |-> "MissingOperator"])

\* the errors of the call are those the Context had and those of the lexer
Context_errors(c, l) == c.errors \o l.errors

\* Context::parse_str with the errors it leaves in the Context
parse_errors(string, c) ==
    LET parsed(l, tokens, items) ==
            IF parse(tokens).st # "ok" THEN Ret(parse(tokens), Context_errors(c, l))
            ELSE Ret(parse_items(items), Context_errors(c, l))
        grouped(l, tokens, items) ==
            IF items.st # "ok" THEN Ret(items, Context_errors(c, l))
            ELSE parsed(l, tokens, items.v.children)
        lexed(r) ==
            IF ~IsOk(r) THEN Ret(r.out, Context_errors(c, r.ctx))
            ELSE grouped(r.ctx, r.out.v, group(r.out.v))
    IN  lexed(lex_all(string))

PContext(sc, so, errs) == [scopes |-> sc, stdout |-> so, errors |-> errs]

\* `if !self.errors.is_empty() { return Err(self.errors.remove(0)); }` and
\* `self.eval_all(&calc)?`; in the first definition the statements are
\* evaluated before the errors are looked at
eval_checked_last(asts, errs, c) ==
    LET done(r) ==
            IF errs # <<>> THEN Ret(Err(Head(errs)), PContext(r.ctx.scopes, r.ctx.stdout, Tail(errs)))
            ELSE Ret(r.out, PContext(r.ctx.scopes, r.ctx.stdout, errs))
    IN  done(eval_all(asts, Context(c.scopes, c.stdout, <<>>)))
eval_checked(asts, errs, c) ==
    LET done(r) == Ret(r.out, PContext(r.ctx.scopes, r.ctx.stdout, errs))
    IN  IF errs # <<>> THEN Ret(Err(Head(errs)), PContext(c.scopes, c.stdout, Tail(errs)))
        ELSE done(eval_all(asts, Context(c.scopes, c.stdout, <<>>)))

parse_and_eval(string, c) ==
    LET calc(p) ==
            IF ~IsOk(p) THEN Ret(p.out, PContext(c.scopes, c.stdout, p.ctx))
            ELSE eval_checked(p.out.v, p.ctx, c)
    IN  calc(parse_errors(string, c))

\* the sources: a number, strings with a wrong escape and a right one,
\* statements around them, a name
MaxErrors == 2
SrcOne == <<"4">>
SrcBad == <<"\"", "\\", "q", "\"">>
SrcBadTwice == <<"\"", "\\", "q", "\\", "z", "\"">>
SrcEscaped == <<"\"", "\\", "n", "\"">>
SrcPrint(e) == <<"p", "r", "i", "n", "t", "(">> \o e \o <<")">>
SrcVal(e) == <<"v", "a", "l", " ", "x", " ", "=", " ">> \o e
PipelineSources ==
    {SrcOne, SrcBad, SrcBadTwice, SrcEscaped, <<"x">>, <<"\"", "\\", "q">>,
     SrcBad \o <<")">>}
    \cup UNION {{SrcPrint(e), SrcVal(e), e \o <<" ", "-">>} : e \in {SrcOne, SrcBad}}

ParseAndEval(string) ==
    /\ Len(errors) < MaxErrors
    /\ Len(stdout) < MaxOut
    /\ LET leaves(r) ==
               /\ out' = r.out
               /\ scopes' = r.ctx.scopes
               /\ stdout' = r.ctx.stdout
               /\ errors' = r.ctx.errors
       IN  leaves(parse_and_eval(string, PContext(scopes, stdout, errors)))
    /\ fn' = "parse_and_eval"
    /\ args' = [kind |-> "source", text |-> string]
    /\ UNCHANGED <<log, cur, ret, overflow_checks>>

\* Context::clear_vars, Context::clear_errors, Context::clear
ClearVars ==
    /\ scopes' = <<Scope_default>>
    /\ fn' = "clear_vars"
    /\ UNCHANGED <<stdout, log, cur, ret, overflow_checks, args, out, errors>>
ClearErrors ==
    /\ errors' = <<>>
    /\ fn' = "clear_errors"
    /\ UNCHANGED <<scopes, stdout, log, cur, ret, overflow_checks, args, out>>
Clear ==
    /\ scopes' = <<Scope_default>>
    /\ errors' = <<>>
    /\ fn' = "clear"
    /\ UNCHANGED <<stdout, log, cur, ret, overflow_checks, args, out>>

PipelineInit ==
    /\ scopes = <<Scope_default>>
    /\ stdout = ""
    /\ log = <<>>
    /\ cur = <<>>
    /\ ret = NoOutcome
    /\ overflow_checks = FALSE
    /\ args = <<>>
    /\ out = NoOutcome
    /\ fn = "none"
    /\ errors = <<>>

PipelineNext ==
    \/ \E string \in PipelineSources : ParseAndEval(string)
    \/ ClearVars
    \/ ClearErrors
    \/ Clear

PipelineSpec == PipelineInit /\ [][PipelineNext]_vars

(***************************************************************************)
(* The records of the functions.  A Fun is a cell that is written once: no *)
(* element before Fun::init and the InnerFun after it.  The functions of a *)
(* block are numbered in the order of their headers, and a FunCall node    *)
(* holds the number of its Fun.                                            *)
(***************************************************************************)
InnerFun_new(params, body, frame_size) ==
    [params |-> params, block |-> body, frame_size |-> frame_size]

\* the record is made with a body in it
Fun_default_installed == <<InnerFun_new(<<>>, <<>>, 0)>>
Fun_default == <<>>
Fun_init(f, inner) == IF f = <<>> THEN Ok(<<inner>>) ELSE Panic
Fun_get(f) == IF f = <<>> THEN Panic ELSE Ok(f[1])

\* the first pass over the items[k..] of a block: every header gets an
\* empty Fun, the second header of a name is the error RedefinedFun
RECURSIVE declare_funs(_, _, _, _)
declare_funs(items, k, funs, names) ==
    IF k > Len(items) THEN Ok([funs |-> funs, names |-> names])
    ELSE IF items[k].typ # "FunDef" THEN declare_funs(items, k + 1, funs, names)
    ELSE IF items[k].name \in DOMAIN names
    THEN Err([e |-> "RedefinedFun", name |-> items[k].name, a |-> names[items[k].name], b |-> k])
    ELSE declare_funs(items, k + 1, Append(funs, Fun_default),
                      (items[k].name :> Len(funs) + 1) @@ names)

\* the node of a call of the name
check_call(name, names) ==
    IF name \in DOMAIN names THEN Ok([typ |-> "FunCall", fun |-> names[name]])
    ELSE Err([e |-> "UndefinedVar", name |-> name])

\* the statements of the body of a function: nothing or one call
check_body(calls, names) ==
    LET node(c) == IF c.st = "ok" THEN Ok(<<c.v>>) ELSE c
    IN  IF calls = "none" THEN Ok(<<>>) ELSE node(check_call(calls, names))

\* the second pass: the body of every function is checked and installed,
\* the other statements are checked
RECURSIVE define_funs(_, _, _, _, _)
define_funs(items, k, funs, names, asts) ==
    LET install(i, cell) ==
            IF cell.st = "ok"
            THEN define_funs(items, k + 1, [funs EXCEPT ![i] = cell.v], names, asts)
            ELSE cell
        body(i, b) ==
            IF b.st = "ok" THEN install(i, Fun_init(funs[i], InnerFun_new(<<>>, b.v, 0))) ELSE b
        call(c) ==
            IF c.st = "ok" THEN define_funs(items, k + 1, funs, names, Append(asts, c.v)) ELSE c
    IN  IF k > Len(items) THEN Ok([funs |-> funs, asts |-> asts])
        ELSE IF items[k].typ = "FunDef"
        THEN body(names[items[k].name], check_body(items[k].calls, names))
        ELSE call(check_call(items[k].name, names))

check_funs(items) ==
    LET second(d) == IF d.st = "ok" THEN define_funs(items, 1, d.v.funs, d.v.names, <<>>) ELSE d
    IN  second(declare_funs(items, 1, <<>>, <<>>))

\* the calls are followed to the depth CallDepth
CallDepth == MaxScopes + 1

\* the statements asts[k..] with the functions funs
RECURSIVE eval_calls(_, _, _, _)
eval_calls(asts, k, funs, depth) ==
    LET rest(r) == IF r.st = "ok" THEN eval_calls(asts, k + 1, funs, depth) ELSE r
        enter(f) ==
            IF f.st # "ok" THEN f
            ELSE IF depth = 0 THEN Err([e |-> "Deep"])
            ELSE eval_calls(f.v.block, 1, funs, depth - 1)
    IN  IF k > Len(asts) THEN Ok(TRUE) ELSE rest(enter(Fun_get(funs[asts[k].fun])))

FunNames == {"f", "g"}
FunItems ==
    [typ : {"FunDef"}, name : FunNames, calls : FunNames \cup {"none"}]
    \cup [typ : {"FunCall"}, name : FunNames]
FunBlocks == UNION {[1..n -> FunItems] : n \in 1..(MaxStmts + 1)}

FunInit ==
    /\ scopes = <<Scope_default>>
    /\ stdout = ""
    /\ log = <<>>
    /\ cur = <<>>
    /\ ret = NoOutcome
    /\ overflow_checks = FALSE
    /\ args \in [kind : {"block"}, items : FunBlocks]
    /\ out = NoOutcome
    /\ fn = "none"
    /\ errors = <<>>

CheckFuns == Run("check_funs", check_funs(args.items))
EvalFuns ==
    /\ fn = "check_funs"
    /\ out.st = "ok"
    /\ fn' = "eval_funs"
    /\ out' = eval_calls(out.v.asts, 1, out.v.funs, CallDepth) @@ [funs |-> out.v.funs]
    /\ UNCHANGED <<scopes, stdout, log, cur, ret, overflow_checks, args, errors>>

FunNext ==
    \/ CheckFuns
    \/ EvalFuns

FunSpec == FunInit /\ [][FunNext]_vars

(***************************************************************************)
(* The operators on literal operands.  args are the operands, fn the       *)
(* operator that was applied and out the outcome of Context::eval on       *)
(* `args[1] fn args[2]`.                                                   *)
(***************************************************************************)
IntInputs == {IntMin, IntMin + 1, -2, -1, 0, 1, 2, 3, IntMax - 1, IntMax}

\* 0.25, 0.5, 1.0, 1.5, 2.0, the largest float below 2^(IntBits-1),
\* 2^(IntBits-1), 2^IntBits, f64::MAX, their negations and 0.0
FloatQs ==
    {0, 1, 2, FUnit, FUnit + FUnit \div 2, 2 * FUnit,
     (Pow2(MantBits) - 1) * Pow2(IntBits - 1 - MantBits) * FUnit,
     Pow2(IntBits - 1) * FUnit, Pow2(IntBits) * FUnit, FMaxQ}

FloatInputs ==
    {Fin(q) : q \in {p \in FloatQs : IsF64Q(p)}}
    \cup {Fin(-q) : q \in {p \in FloatQs : IsF64Q(p)}}
    \cup {FInf, FNegInf, FNaN}

SmallInputs == {Val_Int(i) : i \in IntInputs} \cup {Val_Float(f) : f \in FloatInputs}
NumInputs == {Val_Int(i) : i \in I128} \cup {Val_Float(f) : f \in FloatInputs}

ArithInputs ==
    {<<Val_Int(a), Val_Int(b)>> : a \in I128, b \in I128}
    \cup {<<x, y>> : x \in SmallInputs, y \in SmallInputs}
    \cup {<<x>> : x \in NumInputs}

ArithInit ==
    /\ scopes = <<Scope_default>>
    /\ stdout = ""
    /\ log = <<>>
    /\ cur = <<>>
    /\ ret = NoOutcome
    /\ overflow_checks \in BOOLEAN
    /\ args \in ArithInputs
    /\ out = NoOutcome
    /\ fn = "none"
    /\ errors = <<>>

\* Context::eval on the tree ast
Apply(name, ast) ==
    /\ fn = "none"
    /\ fn' = name
    /\ LET leaves(r) ==
               /\ out' = r.out
               /\ scopes' = r.ctx.scopes
               /\ stdout' = r.ctx.stdout
               /\ log' = r.ctx.log
       IN  leaves(eval(ast, Context(scopes, stdout, <<>>)))
    /\ UNCHANGED <<cur, ret, overflow_checks, args, errors>>

\* `args[1] op args[2]` and `args[1]!`
BinaryAst(typ) == Ast2(typ, Lit(args[1], 0), Lit(args[2], 4), CRange(0, 5))
UnaryAst(typ) == Ast1(typ, Lit(args[1], 0), CRange(0, 2))

Add == Len(args) = 2 /\ Apply("add", BinaryAst("Add"))
Sub == Len(args) = 2 /\ Apply("sub", BinaryAst("Sub"))
Mul == Len(args) = 2 /\ Apply("mul", BinaryAst("Mul"))
Div == Len(args) = 2 /\ Apply("div", BinaryAst("Div"))
Rem == Len(args) = 2 /\ Apply("rem", BinaryAst("Rem"))
Pow ==
    /\ Len(args) = 2
    /\ args[1].typ = "Int"
    /\ args[2].typ = "Int"
    /\ Apply("pow", BinaryAst("Pow"))
Eq == Len(args) = 2 /\ Apply("eq", BinaryAst("Eq"))
Ne == Len(args) = 2 /\ Apply("ne", BinaryAst("Ne"))
Factorial == Len(args) = 1 /\ Apply("factorial", UnaryAst("Factorial"))
Expr == Len(args) = 1 /\ Apply("expr", Lit(args[1], 0))

ArithNext ==
    \/ Add
    \/ Sub
    \/ Mul
    \/ Div
    \/ Rem
    \/ Pow
    \/ Eq
    \/ Ne
    \/ Factorial
    \/ Expr

ArithSpec == ArithInit /\ [][ArithNext]_vars

(***************************************************************************)
(* The history of eval_ast as a tree: the exit that closes an enter, the   *)
(* nodes evaluated directly under a node, the operands of a node.          *)
(***************************************************************************)
RECURSIVE MatchExitFrom(_, _, _)
MatchExitFrom(lg, k, n) ==
    IF k > Len(lg) THEN 0
    ELSE IF lg[k].ev = "enter" THEN MatchExitFrom(lg, k + 1, n + 1)
    ELSE IF n = 0 THEN k
    ELSE MatchExitFrom(lg, k + 1, n - 1)

MatchExit(lg, i) == MatchExitFrom(lg, i + 1, 0)

RECURSIVE ChildrenFrom(_, _, _, _)
ChildrenFrom(lg, k, end, acc) ==
    IF k >= end THEN acc
    ELSE ChildrenFrom(lg, MatchExit(lg, k) + 1, end, Append(acc, k))

Children(lg, i) == ChildrenFrom(lg, i + 1, MatchExit(lg, i), <<>>)

Operands(ast) ==
    CASE ast.typ \in {"Add", "Sub", "Mul", "Div", "IntDiv", "Rem", "Pow", "Eq", "Ne",
                      "Lt", "Le", "Gt", "Ge", "Or", "And", "RangeEx", "RangeIn",
                      "AssertEq"} -> <<ast.a, ast.b>>
      [] ast.typ \in {"Neg", "Not", "Factorial", "Assert"} -> <<ast.a>>
      [] ast.typ = "Clamp" -> <<ast.num, ast.min, ast.max>>
      [] ast.typ \in {"Min", "Max", "Print", "Println", "FunCall"} -> ast.args
      [] OTHER -> <<>>

Enters(lg) == {i \in DOMAIN lg : lg[i].ev = "enter"}
SameNode(x, y) == x.typ = y.typ /\ x.range = y.range
IsBool(o, b) == o.st = "ok" /\ o.v.typ = "Val" /\ o.v.v.val.typ = "Bool" /\ o.v.v.val.b = b

\* C1: in `a && b` and `a || b` nothing is evaluated after a when a has
\* decided the result (false for &&, true for ||): a is the only node
\* evaluated under the operator.
C1_ShortCircuit ==
    \A i \in Enters(log) :
        log[i].node.typ \in {"And", "Or"} =>
            LET kids == Children(log, i)
            IN  /\ Len(kids) >= 1
                /\ IsBool(log[MatchExit(log, kids[1])].out, log[i].node.typ = "Or")
                        => Len(kids) = 1

\* C2: a block, a for loop and a call of a user function leave the scope
\* stack as deep as they found it, whatever their outcome.
C2_ScopesBalanced ==
    \A i \in Enters(log) :
        log[i].node.typ \in {"Block", "ForLoop", "FunCall"} =>
            log[MatchExit(log, i)].depth = log[i].depth

\* C3: the operands of a node are evaluated in their order, each after the
\* one before it has succeeded; the outcome of the first operand that
\* fails is the outcome of the node, with nothing evaluated in between;
\* a node that succeeds has evaluated all its operands.
C3_LeftToRight ==
    \A i \in Enters(log) :
        LET ops == Operands(log[i].node)
            kids == Children(log, i)
            x == MatchExit(log, i)
        IN  \A k \in 1..Len(ops) :
                IF k <= Len(kids)
                THEN LET xk == MatchExit(log, kids[k])
                     IN  /\ SameNode(log[kids[k]].node, ops[k])
                         /\ log[xk].out.st # "ok" => (xk + 1 = x /\ log[x].out = log[xk].out)
                ELSE log[x].out.st # "ok"

\* `(1 / 0) + (1 / 0)`, `clamp(1 / 0, 1 / 0, 1 / 0)`, ...: every operand
\* fails and the error is that of the first
C3_Witness ==
    \E i \in Enters(log) :
        LET ops == Operands(log[i].node)
        IN  /\ Len(ops) >= 2
            /\ \A k \in 1..Len(ops) : ops[k].typ = "Div"
            /\ Len(Children(log, i)) = 1
            /\ ret = Err(Error2("DivideByZero", ValRange(Val_Int(1), ops[1].a.range),
                                ValRange(Val_Int(0), ops[1].b.range)))

\* the statements evaluated by eval_all: the nodes entered at the top of
\* the history
TopLevel(lg) == ChildrenFrom(lg, 1, Len(lg) + 1, <<>>)

\* C11: eval_all of no statement is the error MissingExpr.  Of a non-empty
\* list it evaluates the statements once each, in their order, up to the
\* first that fails, whose error it returns; when none fails it returns
\* the result of the last statement only: Some(v) for a value, None for
\* Unit.
C11_EvalAll ==
    (fn = "eval" /\ ret.st # "none") =>
        IF Len(cur) = 0 THEN ret = Err([e |-> "MissingExpr"]) /\ log = <<>>
        ELSE LET top == TopLevel(log)
                 n == Len(top)
             IN  /\ n \in 1..Len(cur)
                 /\ \A k \in 1..n : log[top[k]].node = cur[k]
                 /\ \A k \in 1..(n - 1) : log[MatchExit(log, top[k])].out.st = "ok"
                 /\ LET o == log[MatchExit(log, top[n])].out
                     IN  IF o.st # "ok" THEN ret = o
                         ELSE /\ n = Len(cur)
                              /\ ret = IF o.v.typ = "Val" THEN Ok(Some(o.v.v.val))
                                       ELSE Ok(None)

\* `1 / 0; 1; print(1)`: the first of three statements fails, the others
\* are not evaluated and nothing is printed
C11_Witness ==
    /\ Len(cur) = 3
    /\ cur[1].typ = "Div"
    /\ Len(TopLevel(log)) = 1
    /\ ret.st = "err"
    /\ ret.err.e = "DivideByZero"
    /\ stdout = ""

(***************************************************************************)
(* Variables in the history: the scope that holds a name when a node is    *)
(* entered, the declarations of the name before a node.                    *)
(***************************************************************************)
Holder(lg, i, name) == FindVar(lg[i].scopes, name, Len(lg[i].scopes))
IsImmutable(lg, i, name) ==
    Holder(lg, i, name) # 0 /\ ~lg[i].scopes[Holder(lg, i, name)].vars[name].mutable

\* the entries of `val name` / `var name` before the event i
Decls(lg, i, name) ==
    {j \in Enters(lg) : j < i /\ lg[j].node.typ = "VarDef" /\ lg[j].node.id.ident = name}
LastOf(js) == CHOOSE j \in js : \A k \in js : k <= j

\* the outcome of the right-hand side of the assignment entered at i
RhsOut(lg, i) == lg[MatchExit(lg, i + 1)].out

C13_ImmutableAssignSpans ==
    \A i \in Enters(log) :
        (/\ log[i].node.typ = "Assign"
         /\ IsImmutable(log, i, log[i].node.id.ident)
         /\ RhsOut(log, i).st = "ok"
         /\ Decls(log, i, log[i].node.id.ident) # {}) =>
            LET id == log[i].node.id
                decl == log[LastOf(Decls(log, i, id.ident))].node.id
            IN  log[MatchExit(log, i)].out =
                    Err([e |-> "ImmutableAssign", name |-> id.ident,
                         a |-> decl.range, b |-> id.range])

\* the history has neither a loop nor a call: every variable is one a
\* `val` / `var` has declared
OnlyDeclared(lg) == \A j \in Enters(lg) : lg[j].node.typ \notin {"ForLoop", "FunCall"}

\* the block entered at i holds the event j and has closed before m
ClosedBlock(lg, i, j, m) ==
    lg[i].node.typ = "Block" /\ i < j /\ j < MatchExit(lg, i) /\ MatchExit(lg, i) < m

\* the successful assignments and the declarations of name between y and m
Writes(lg, y, m, name) ==
    {j \in Enters(lg) :
        /\ y < j
        /\ j < m
        /\ lg[j].node.typ \in {"VarDef", "Assign"}
        /\ lg[j].node.id.ident = name}

\* C14: a variable declared in a block is unknown once the block has
\* closed: its use is the error UndefinedVar with the span of the use.  An
\* assignment in a block to a variable of an enclosing scope is seen after
\* the block: the next use of the variable gives the assigned value.
C14_BlockScoping ==
    OnlyDeclared(log) =>
        \A m \in Enters(log) :
            log[m].node.typ = "Ident" =>
                LET name == log[m].node.id
                    o == log[MatchExit(log, m)].out
                IN  /\ (/\ name \notin DOMAIN log[1].scopes[1].vars
                         /\ \A j \in Decls(log, m, name) :
                                \E i \in Enters(log) : ClosedBlock(log, i, j, m))
                            => o = Err(ErrorId("UndefinedVar",
                                               IdentRange(name, log[m].node.range)))
                    /\ \A j \in Enters(log) :
                            (/\ j < m
                             /\ log[j].node.typ = "Assign"
                             /\ log[j].node.id.ident = name
                             /\ log[MatchExit(log, j)].out.st = "ok"
                             /\ \A d \in Decls(log, m, name) : log[d].depth = 1
                             /\ Writes(log, MatchExit(log, j), m, name) = {})
                                => o = Ok(ReturnVal(ValRange(RhsOut(log, j).v.v.val,
                                                             log[m].node.range)))

\* `var x = 2; { x = 7 }; x` is 7
C14_Witness ==
    /\ Len(cur) = 3
    /\ cur[1].typ = "VarDef"
    /\ cur[2].typ = "Block"
    /\ cur[2].asts[1].typ = "Assign"
    /\ cur[3].typ = "Ident"
    /\ ret = Ok(Some(Val_Int(7)))

\* the declaration and the definition of a name that the innermost scope
\* already has
Redeclares(lg, i) ==
    /\ lg[i].node.typ = "VarDef"
    /\ lg[i].node.id.ident \in DOMAIN Last(lg[MatchExit(lg, i + 1)].scopes).vars
Redefines(lg, i) ==
    /\ lg[i].node.typ = "FunDef"
    /\ lg[i].node.id.ident \in DOMAIN Last(lg[i].scopes).funs

\* C15: the definition of a function whose name the scope already has is
\* the error RedefinedFun with the name, the span of the first name and
\* the span of the second, whatever the parameters; the declaration of a
\* variable whose name the scope already has is the error RedefinedVar
\* with the name.
C15_Redefined ==
    \A i \in Enters(log) :
        /\ Redefines(log, i) =>
                LET id == log[i].node.id
                IN  log[MatchExit(log, i)].out =
                        Err([e |-> "RedefinedFun", name |-> id.ident,
                             first |-> Last(log[i].scopes).funs[id.ident].ident.range,
                             second |-> id.range])
        /\ (Redeclares(log, i) /\ RhsOut(log, i).st = "ok") =>
                /\ log[MatchExit(log, i)].out.st = "err"
                /\ log[MatchExit(log, i)].out.err.e = "RedefinedVar"
                /\ log[MatchExit(log, i)].out.err.name = log[i].node.id.ident

\* the display forms of the values of the nodes kids[k..], a space before
\* each but the first
RECURSIVE Joined(_, _, _)
Joined(lg, kids, k) ==
    IF k > Len(kids) THEN ""
    ELSE (IF k > 1 THEN " " ELSE "")
             \o Display(lg[MatchExit(lg, kids[k])].out.v.v.val)
             \o Joined(lg, kids, k + 1)

\* the line of the variable of every scope of sc[k..] that has one
RECURSIVE SpillLines(_, _)
SpillLines(sc, k) ==
    IF k > Len(sc) THEN ""
    ELSE (IF DOMAIN sc[k].vars = {} THEN ""
          ELSE LET name == CHOOSE n \in DOMAIN sc[k].vars : TRUE
               IN  name \o " = " \o Display(sc[k].vars[name].value.v) \o "\n")
             \o SpillLines(sc, k + 1)

\* what the node entered at i has written when it exits with success
Written(lg, i) ==
    CASE lg[i].node.typ = "Print" -> Joined(lg, Children(lg, i), 1)
      [] lg[i].node.typ = "Println" -> Joined(lg, Children(lg, i), 1) \o "\n"
      [] lg[i].node.typ = "Spill" -> SpillLines(lg[i].scopes, 1)
      [] OTHER -> ""

\* C20: print writes the display forms of its values with one space
\* between two of them and nothing else, println the same and one newline;
\* the output of a print, println or spill follows what was written before
\* it, and nothing else writes.
C20_PrintFormat ==
    /\ \A i \in Enters(log) :
            LET x == MatchExit(log, i)
            IN  /\ log[i].stdout = IF i = 1 THEN log[1].stdout ELSE log[i - 1].stdout
                /\ log[x].stdout =
                        log[x - 1].stdout
                            \o (IF log[x].out.st = "ok" THEN Written(log, i) ELSE "")
    /\ log # <<>> => stdout = log[Len(log)].stdout

\* `println(1, true)` has written "1 true" and a newline
C20_Witness ==
    /\ Len(cur) = 1
    /\ cur[1].typ = "Println"
    /\ Len(cur[1].args) = 2
    /\ ret = Ok(None)
    /\ stdout = "1 true\n"

(***************************************************************************)
(* The values the operators are to give.                                   *)
(***************************************************************************)
Lhs == ValRange(args[1], pos(0))
Rhs == ValRange(args[2], pos(4))
BothInts == Len(args) = 2 /\ args[1].typ = "Int" /\ args[2].typ = "Int"
Returned(v) == Ok(Some(v))

\* C4: `a + b`, `a - b` and `a * b` on Ints give the exact result when it
\* is an i128 and AddOverflow(a, b), SubOverflow(a, b), MulOverflow(a, b)
\* when it is not.
C4_CheckedArith ==
    (fn \in {"add", "sub", "mul"} /\ BothInts) =>
        LET a == args[1].i
            b == args[2].i
            exact == CASE fn = "add" -> a + b
                       [] fn = "sub" -> a - b
                       [] fn = "mul" -> a * b
            name == CASE fn = "add" -> "AddOverflow"
                      [] fn = "sub" -> "SubOverflow"
                      [] fn = "mul" -> "MulOverflow"
        IN  IF InI128(exact) THEN out = Returned(Val_Int(exact))
            ELSE out = Err(Error2(name, Lhs, Rhs))

\* i128::MAX + 1, ...: a sum that is no i128
C4_Witness ==
    /\ fn = "add"
    /\ BothInts
    /\ ~InI128(args[1].i + args[2].i)
    /\ out = Err(Error2("AddOverflow", Lhs, Rhs))

\* base^e when it is an i128
RECURSIVE MathPow(_, _)
MathPow(base, e) ==
    IF e = 0 THEN Some(1)
    ELSE LET p == MathPow(base, e - 1)
         IN  IF p.some /\ InI128(p.v * base) THEN Some(p.v * base) ELSE None

\* C5: `base ^ e` on Ints with e >= 0 gives the exact result when it is
\* an i128 and PowOverflow(base, e) when it is not.
C5_CheckedPow ==
    (fn = "pow" /\ BothInts /\ args[2].i >= 0) =>
        LET p == MathPow(args[1].i, args[2].i)
        IN  IF p.some THEN out = Returned(Val_Int(p.v))
            ELSE out = Err(Error2("PowOverflow", Lhs, Rhs))

IsDivideByZero(o) == o.st = "err" /\ o.err.e = "DivideByZero"
IsZero(v) ==
    \/ v.typ = "Int" /\ v.i = 0
    \/ v.typ = "Float" /\ v.f = Fin(0)

\* a Float that is an integer
IsIntegral(f) == f.k = "fin" /\ f.q % FUnit = 0

\* the value the evaluation of a literal gives: an integral Float that is
\* an i128 is that Int
Literal(v) ==
    IF v.typ = "Float" /\ IsIntegral(v.f) /\ InI128(v.f.q \div FUnit)
    THEN Val_Int(v.f.q \div FUnit)
    ELSE v

\* C6: a division with a Float operand never fails with DivideByZero; by
\* 0.0 it gives a Float that is infinite or NaN.
C6_FloatDivNoError ==
    (fn = "div" /\ (args[1].typ = "Float" \/ args[2].typ = "Float")) =>
        /\ ~IsDivideByZero(out)
        /\ IsZero(args[2]) =>
                /\ out.st = "ok"
                /\ out.v.some
                /\ out.v.v.typ = "Float"
                /\ out.v.v.f.k # "fin"

\* C6, as the division is: it fails with DivideByZero exactly when the
\* divisor is zero, be it 0 or 0.0 and whatever the dividend; the error
\* holds the span of the dividend and, as divisor, the Int 0.
C6_DivideByZeroIffZero ==
    fn = "div" =>
        /\ IsDivideByZero(out) <=> IsZero(args[2])
        /\ IsZero(args[2]) =>
                /\ out.err.a.range = pos(0)
                /\ out.err.b = ValRange(Val_Int(0), pos(4))

\* `1.5 / 0.0`
C6_Witness ==
    /\ fn = "div"
    /\ args[1] = Val_Float(Fin(FUnit + FUnit \div 2))
    /\ args[2] = Val_Float(Fin(0))
    /\ IsDivideByZero(out)

\* C7: `a % b` on Ints with b # 0 gives the r with b | a - r, |r| < |b|
\* that is 0 or has the sign of b; with b = 0 it fails with
\* RemainderByZero(a, b).
C7_EuclidRem ==
    (fn = "rem" /\ BothInts) =>
        LET a == args[1].i
            b == args[2].i
        IN  IF b = 0 THEN out = Err(Error2("RemainderByZero", Lhs, Rhs))
            ELSE /\ out.st = "ok"
                 /\ out.v.some
                 /\ out.v.v.typ = "Int"
                 /\ LET r == out.v.v.i
                    IN  /\ (a - r) % Abs(b) = 0
                        /\ Abs(r) < Abs(b)
                        /\ r = 0 \/ Sgn(r) = Sgn(b)

(***************************************************************************)
(* Naturals of any size, as sequences of digits in base 10000 with the     *)
(* least digit first, to compare n! with i128::MAX = 2^127 - 1.            *)
(***************************************************************************)
RECURSIVE LimbMulFrom(_, _, _, _)
LimbMulFrom(x, k, i, carry) ==
    IF i > Len(x) THEN IF carry = 0 THEN <<>> ELSE <<carry>>
    ELSE LET t == x[i] * k + carry
         IN  <<t % 10000>> \o LimbMulFrom(x, k, i + 1, t \div 10000)

LimbMul(x, k) == LimbMulFrom(x, k, 1, 0)

RECURSIVE LimbLtFrom(_, _, _)
LimbLtFrom(x, y, i) ==
    IF i = 0 THEN FALSE
    ELSE IF x[i] # y[i] THEN x[i] < y[i]
    ELSE LimbLtFrom(x, y, i - 1)

LimbLt(x, y) ==
    IF Len(x) # Len(y) THEN Len(x) < Len(y) ELSE LimbLtFrom(x, y, Len(x))

\* i * (i + 1) * ... * n * f < limit
RECURSIVE FactorialBelow(_, _, _, _)
FactorialBelow(f, i, n, limit) ==
    IF i > n THEN LimbLt(f, limit)
    ELSE LimbLt(f, limit) /\ FactorialBelow(LimbMul(f, i), i + 1, n, limit)

RECURSIVE LimbPow2(_)
LimbPow2(k) ==
    IF k = 0 THEN <<1>>
    ELSE IF k >= 13 THEN LimbMul(LimbPow2(k - 13), 8192)
    ELSE LimbMul(LimbPow2(k - 1), 2)

\* n! <= 2^(bits-1) - 1
FactorialFits(n, bits) == FactorialBelow(<<1>>, 1, n, LimbPow2(bits - 1))

RECURSIVE MathFactorial(_)
MathFactorial(n) == IF n = 0 THEN 1 ELSE n * MathFactorial(n - 1)

\* C8: `n!` on an Int fails with NegativeFactorial(n) for n < 0, gives
\* 1 * 2 * ... * n when that is an i128 and fails with
\* FactorialOverflow(n) when it is not; on a Float that is no integer it
\* fails with FractionFactorial(n).  The errors hold the operand and its
\* span.  With the 128 bits of i128 the largest n that has a factorial
\* is 33.
C8_Factorial ==
    fn = "factorial" =>
        LET n == args[1]
        IN  /\ (n.typ = "Int" /\ n.i < 0) => out = Err(Error1("NegativeFactorial", Lhs))
            /\ (n.typ = "Int" /\ n.i >= 0) =>
                    IF FactorialFits(n.i, IntBits)
                    THEN out = Returned(Val_Int(MathFactorial(n.i)))
                    ELSE out = Err(Error1("FactorialOverflow", Lhs))
            /\ (n.typ = "Float" /\ ~IsIntegral(n.f)) =>
                    out = Err(Error1("FractionFactorial", Lhs))
            /\ FactorialFits(33, 128)
            /\ ~FactorialFits(34, 128)

\* the least n whose factorial is no i128
C8_Witness ==
    /\ fn = "factorial"
    /\ args[1].typ = "Int"
    /\ args[1].i > 0
    /\ FactorialFits(args[1].i - 1, IntBits)
    /\ out = Err(Error1("FactorialOverflow", Lhs))

\* the number a value is, in units of 1 / FUnit
MathVal(v) == IF v.typ = "Int" THEN Fin(v.i * FUnit) ELSE v.f

\* C9: `x == y` on numbers is true exactly when x and y are the same
\* number, whether each is an Int or a Float, and `x != y` is false
\* exactly then.
C9_NumericEq ==
    (fn \in {"eq", "ne"} /\ MathVal(args[1]) # FNaN /\ MathVal(args[2]) # FNaN) =>
        out = Returned(Val_Bool((MathVal(args[1]) = MathVal(args[2])) <=> (fn = "eq")))

\* C10: the value of an expression is no Float that is an integer in the
\* range of i128, and a Float literal that is NaN, infinite, no integer or
\* out of the range of i128 evaluates to itself.
C10_ValuePreserving ==
    /\ (fn # "none" /\ out.st = "ok" /\ out.v.some /\ out.v.v.typ = "Float") =>
            Literal(out.v.v) = out.v.v
    /\ (fn = "expr" /\ args[1].typ = "Float" /\ Literal(args[1]) = args[1]) =>
            out = Returned(args[1])

\* C16: a name in the body of a function that is a variable of an
\* enclosing function is rejected with CapturingFromDynamicScope, the span
\* of the declaration and the span of the use; a parameter or a variable
\* of the function itself, a global variable and a function of the top
\* level are accepted.
C16_DynamicCapture ==
    fn = "check" =>
        IF args.use = "call" \/ args.param \/ args.local THEN out.st = "ok"
        ELSE IF args.outer
        THEN out = Err(Error2("CapturingFromDynamicScope", pos(28), pos(62)))
        ELSE IF args.global THEN out.st = "ok"
        ELSE out = Err(ErrorId("UndefinedVar", IdentRange("a", pos(62))))

\* `val a = 3; fun outer() { val a = 3; fun inner() { a } }`: the a of
\* outer is captured, although there is a global a
C16_Witness ==
    /\ fn = "check"
    /\ args.global
    /\ args.outer
    /\ ~args.param
    /\ ~args.local
    /\ args.use = "a"
    /\ out.st = "err"
    /\ out.err.e = "CapturingFromDynamicScope"

\* the signature accepts the types: the number of arguments fits its
\* repetition and every argument has the type of its parameter, or the
\* parameter is Any, or the parameter is Float and the argument Int
Accepts(sig, tys) ==
    /\ CASE sig.repetition = "One" -> Len(tys) = Len(sig.params)
         [] sig.repetition = "ZeroOrMore" -> Len(tys) >= Len(sig.params) - 1
         [] sig.repetition = "OneOrMore" -> Len(tys) >= Len(sig.params)
    /\ \A k \in 1..Len(tys) :
            LET p == IF k < Len(sig.params) THEN sig.params[k] ELSE Last(sig.params)
            IN  p = tys[k] \/ p = "Any" \/ (p = "Float" /\ tys[k] = "Int")

Numeric == {"pow", "min", "max", "clamp", "abs"}

\* C17: the call of a builtin takes the first of its signatures that
\* accepts the types of the arguments.  For pow, min, max, clamp and abs
\* arguments that are all Int take the Int variant, Int and Float mixed the
\* Float variant.  When no signature accepts, the error is
\* NoMatchingBuiltinSignature with the name, the signatures in their order
\* and the types of the arguments.
C17_Overload ==
    fn = "resolve_builtin" =>
        LET sigs == Signatures(args.builtin)
            m == {i \in DOMAIN sigs : Accepts(sigs[i], args.tys)}
        IN  /\ IF m = {}
               THEN out = Err([e |-> "NoMatchingBuiltinSignature", name |-> args.builtin,
                               signatures |-> sigs, args |-> args.tys])
               ELSE out = Ok(sigs[CHOOSE i \in m : \A j \in m : i <= j])
            /\ (out.st = "ok" /\ args.builtin \in Numeric) =>
                    IF \A k \in DOMAIN args.tys : args.tys[k] = "Int"
                    THEN out.v = sigs[1]
                    ELSE out.v = sigs[2]
            /\ (/\ args.builtin \in Numeric
                /\ args.tys # <<>>
                /\ \A k \in DOMAIN args.tys : args.tys[k] \in {"Int", "Float"}
                /\ Len(args.tys) = Len(sigs[1].params) \/ sigs[1].repetition # "One")
                    => out.st = "ok"

\* `pow(1, 2.0)` is PowFloat
C17_Witness ==
    /\ fn = "resolve_builtin"
    /\ args.builtin = "pow"
    /\ args.tys = <<"Int", "Float">>
    /\ out = Ok(One("PowFloat", <<"Float", "Float">>, "Float"))

\* the brackets open after the token k: the opening brackets less the
\* closing brackets of tokens[1..k]
Depth(tokens, k) ==
    Cardinality({j \in 1..k : is_opening(tokens[j])})
        - Cardinality({j \in 1..k : is_closing(tokens[j])})

\* the closing brackets that close nothing and the opening brackets that
\* nothing closes
Unexpected(tokens) == {k \in DOMAIN tokens : is_closing(tokens[k]) /\ Depth(tokens, k) < 0}
Unclosed(tokens) ==
    {k \in DOMAIN tokens :
        is_opening(tokens[k]) /\ \A j \in k..Len(tokens) : Depth(tokens, j) >= Depth(tokens, k)}

\* C18: the first closing bracket that closes nothing is the error
\* UnexpectedParenthesis with the span of that bracket; a text that ends
\* with a bracket open is the error MissingClosingParenthesis with the
\* span of a bracket that is not closed; a text whose brackets balance
\* gives neither.
C18_Brackets ==
    fn = "group" =>
        LET tokens == lex(args.text).v
            first == CHOOSE k \in Unexpected(tokens) : \A j \in Unexpected(tokens) : k <= j
        IN  IF Unexpected(tokens) # {}
            THEN /\ out = Err(Error1("UnexpectedParenthesis", tokens[first]))
                 /\ Error_ranges(out.err) = <<tokens[first].range>>
            ELSE IF Depth(tokens, Len(tokens)) > 0
            THEN /\ out.st = "err"
                 /\ out.err.e = "MissingClosingParenthesis"
                 /\ \E k \in Unclosed(tokens) : Error_ranges(out.err) = <<tokens[k].range>>
            ELSE out.st = "ok"

\* `4 ) + 5)`: the bracket at 2
C18_Witness ==
    /\ fn = "group"
    /\ args.text = <<"4", " ", ")", " ", "+", " ", "5", ")">>
    /\ out = Err(Error1("UnexpectedParenthesis", Token_par("RoundClose", pos(2))))

\* C19: an error of the lexer, the grouper or the parser other than
\* MissingExpr has at least one span, and every span of it lies in the
\* text: start <= end <= the length of the text.
C19_SpansInSource ==
    (fn \in {"lex", "group", "parse_str"} /\ out.st = "err" /\ out.err.e # "MissingExpr") =>
        /\ Error_ranges(out.err) # <<>>
        /\ \A i \in DOMAIN Error_ranges(out.err) :
                /\ Error_ranges(out.err)[i].start <= Error_ranges(out.err)[i].end
                /\ Error_ranges(out.err)[i].end <= ByteLen(args.text)

(***************************************************************************)
(* The variables a node sees: for every name of the scopes the variable    *)
(* of the innermost scope that has the name.                               *)
(***************************************************************************)
Names(sc) == UNION {DOMAIN sc[k].vars : k \in DOMAIN sc}
Visible(sc, name) == sc[FindVar(sc, name, Len(sc))].vars[name]
VisibleLine(sc, name) ==
    IF Visible(sc, name).value.some
    THEN name \o " = " \o Display(Visible(sc, name).value.v) \o "\n"
    ELSE ""

\* the lines of the names order[k..]
RECURSIVE VisibleLines(_, _, _)
VisibleLines(sc, order, k) ==
    IF k > Len(order) THEN ""
    ELSE VisibleLine(sc, order[k]) \o VisibleLines(sc, order, k + 1)

\* the sequences that hold every name of the set once
Orders(names) ==
    {f \in [1..Cardinality(names) -> names] : \A n \in names : \E k \in DOMAIN f : f[k] = n}

\* C22: spill writes one line `name = value` for every variable that is
\* visible where it is called and has a value, and nothing else: of two
\* variables of the same name only the innermost has a line.
C22_SpillVisible ==
    \A i \in Enters(log) :
        (log[i].node.typ = "Spill" /\ log[MatchExit(log, i)].out.st = "ok") =>
            \E order \in Orders(Names(log[i].scopes)) :
                log[MatchExit(log, i)].stdout =
                    log[i].stdout \o VisibleLines(log[i].scopes, order, 1)

\* the function the call entered at i resolves to
Callee(lg, i) ==
    lg[i].scopes[FindFun(lg[i].scopes, lg[i].node.id.ident, Len(lg[i].scopes))]
        .funs[lg[i].node.id.ident]
Resolves(lg, i) ==
    /\ lg[i].node.typ = "FunCall"
    /\ FindFun(lg[i].scopes, lg[i].node.id.ident, Len(lg[i].scopes)) # 0

\* C26: the call of a function with fewer arguments than parameters is
\* the error MissingFunArgs with the number of parameters as expected and
\* the number of arguments as found, the call with more arguments the
\* error UnexpectedFunArgs with the spans of the arguments beyond the
\* parameters; in both no argument is evaluated, the body does not run,
\* nothing is written and no scope changes.
C26_ArgumentCount ==
    \A i \in Enters(log) :
        (Resolves(log, i) /\ Len(log[i].node.args) # Len(Callee(log, i).params)) =>
            LET np == Len(Callee(log, i).params)
                as == log[i].node.args
                o == log[i + 1].out
            IN  /\ MatchExit(log, i) = i + 1
                /\ o.st = "err"
                /\ o.err.expected = np
                /\ o.err.found = Len(as)
                /\ IF Len(as) < np THEN o.err.e = "MissingFunArgs"
                   ELSE /\ o.err.e = "UnexpectedFunArgs"
                        /\ o.err.ranges = [k \in 1..(Len(as) - np) |-> as[np + k].range]
                /\ log[i + 1].stdout = log[i].stdout
                /\ log[i + 1].scopes = log[i].scopes

\* `{ fun h(a) { print(1) }; h({ print(1); 1 }, 1 / 0) }`: one argument too
\* many, and nothing is printed
C26_Witness ==
    /\ Len(cur) = 1
    /\ cur[1].typ = "Block"
    /\ Len(cur[1].asts) = 2
    /\ cur[1].asts[2].typ = "FunCall"
    /\ cur[1].asts[2].id.ident = "h"
    /\ Len(cur[1].asts[1].params) = 1
    /\ Len(cur[1].asts[2].args) = 2
    /\ cur[1].asts[2].args[1].typ = "Block"
    /\ ret.st = "err"
    /\ ret.err.e = "UnexpectedFunArgs"
    /\ ret.err.ranges = <<cur[1].asts[2].args[2].range>>
    /\ stdout = ""

\* the name a node reads or assigns
UsedName(node) ==
    CASE node.typ = "Ident" -> node.id
      [] node.typ \in {"Assign", "AddAssign", "SubAssign", "MulAssign", "DivAssign"} ->
            node.id.ident
      [] OTHER -> ""

\* the event after which the body of the call entered at i runs
ArgsEnd(lg, i) ==
    IF lg[i].node.args = <<>> THEN i
    ELSE MatchExit(lg, Children(lg, i)[Len(lg[i].node.args)])

\* C27: the body of a called function reads and assigns only its own
\* parameters and variables and the global variables: no name in it
\* resolves to a variable of a scope of the caller, and when the call
\* returns the scopes of the caller are what they were.
C27_FreshFrame ==
    \A i \in Enters(log) :
        (Resolves(log, i) /\ Len(log[i].node.args) = Len(Callee(log, i).params)) =>
            LET x == MatchExit(log, i)
                locals == 2..Len(log[i].scopes)
            IN  /\ \A j \in Enters(log) :
                        (ArgsEnd(log, i) < j /\ j < x /\ UsedName(log[j].node) # "")
                            => Holder(log, j, UsedName(log[j].node)) \notin locals
                /\ log[x].out.st = "ok" =>
                        \A k \in locals : log[x].scopes[k] = log[i].scopes[k]

\* the events kids[(n + 1)..] are the statements of a block in their
\* order, up to the first that fails, and o is the outcome of the block
RunsBlock(lg, kids, n, asts, range, o) ==
    LET m == Len(kids) - n
    IN  /\ m <= Len(asts)
        /\ \A k \in 1..m : lg[kids[n + k]].node = asts[k]
        /\ \A k \in 1..(m - 1) : lg[MatchExit(lg, kids[n + k])].out.st = "ok"
        /\ IF asts = <<>> THEN o = Ok(ReturnUnit(range))
           ELSE /\ m >= 1
                /\ o = lg[MatchExit(lg, kids[Len(kids)])].out
                /\ o.st = "ok" => m = Len(asts)

\* C28: an if evaluates the conditions of its cases in their order up to
\* the first that is true and runs the block of that case and nothing
\* else: no later condition, no other block.  When every condition is
\* false it runs the else block, and without one it is Unit.  A condition
\* that fails or is no Bool ends the if with the error.
C28_IfChain ==
    \A i \in Enters(log) :
        log[i].node.typ = "IfExpr" =>
            LET kids == Children(log, i)
                cases == log[i].node.cases
                els == log[i].node.else_block
                o == log[MatchExit(log, i)].out
            IN  \E n \in 1..Len(cases) :
                    /\ Len(kids) >= n
                    /\ \A k \in 1..n : log[kids[k]].node = cases[k].cond
                    /\ \A k \in 1..(n - 1) : IsBool(log[MatchExit(log, kids[k])].out, FALSE)
                    /\ LET c == log[MatchExit(log, kids[n])].out
                       IN  IF IsBool(c, TRUE)
                           THEN RunsBlock(log, kids, n, cases[n].block, log[i].node.range, o)
                           ELSE IF IsBool(c, FALSE)
                           THEN /\ n = Len(cases)
                                /\ IF els.some
                                   THEN RunsBlock(log, kids, n, els.v.asts, els.v.range, o)
                                   ELSE Len(kids) = n /\ o = Ok(ReturnUnit(log[i].node.range))
                           ELSE Len(kids) = n /\ o.st = "err"

\* `if true { 1; 2 } else if 1 / 0 { 2; 3 } else { 9 }` is 2: the division
\* by zero is not evaluated
C28_Witness ==
    /\ Len(cur) = 1
    /\ cur[1].typ = "IfExpr"
    /\ Len(cur[1].cases) = 2
    /\ cur[1].cases[1].cond.typ = "Val"
    /\ cur[1].cases[1].cond.val = Val_Bool(TRUE)
    /\ cur[1].cases[2].cond.typ = "Div"
    /\ cur[1].else_block.some
    /\ Len(Children(log, 1)) = 3
    /\ ret = Ok(Some(Val_Int(2)))

IsRange(o) == o.st = "ok" /\ o.v.typ = "Val" /\ o.v.v.val.typ = "Range"

\* the number of the integers of a range
RangeCount(r) ==
    LET n == r.b - r.a + (IF r.inclusive THEN 1 ELSE 0)
    IN  IF n > 0 THEN n ELSE 0

\* C29: a for loop evaluates what it runs over once, before the body.
\* Over `a..b` the body runs for a, a + 1, .., b - 1 in this order, over
\* `a..=b` for a, .., b, and not at all when the range is empty; the
\* variable of the loop is that integer when an iteration starts.  The
\* loop ends after these iterations and is Unit, whatever the body gives;
\* a statement of the body that fails ends it with the error.
C29_ForLoop ==
    \A i \in Enters(log) :
        log[i].node.typ = "ForLoop" =>
            LET kids == Children(log, i)
                body == log[i].node.block.asts
                o == log[MatchExit(log, i)].out
                it == log[MatchExit(log, i + 1)].out
            IN  /\ Len(kids) >= 1
                /\ kids[1] = i + 1
                /\ log[i + 1].node = log[i].node.iter
                /\ \A q \in 2..Len(kids) : log[kids[q]].node # log[i].node.iter
                /\ IF ~IsRange(it) THEN Len(kids) = 1 /\ o.st = "err"
                   ELSE LET r == it.v.v.val
                            total == RangeCount(r) * Len(body)
                        IN  /\ Len(kids) - 1 <= total
                            /\ \A q \in 2..Len(kids) :
                                    /\ log[kids[q]].node = body[((q - 2) % Len(body)) + 1]
                                    /\ Last(log[kids[q]].scopes).vars[log[i].node.ident.ident].value
                                            = Some(Val_Int(r.a + ((q - 2) \div Len(body))))
                                    /\ q < Len(kids) => log[MatchExit(log, kids[q])].out.st = "ok"
                            /\ IF Len(kids) > 1 /\ log[MatchExit(log, kids[Len(kids)])].out.st # "ok"
                               THEN o = log[MatchExit(log, kids[Len(kids)])].out
                               ELSE /\ Len(kids) - 1 = total
                                    /\ o = Ok(ReturnUnit(log[i].node.range))

\* `for i in 0..=2 { i; 7 }`: three iterations of two statements, the
\* result Unit
C29_Witness ==
    /\ Len(cur) = 1
    /\ cur[1].typ = "ForLoop"
    /\ cur[1].iter.typ = "RangeIn"
    /\ cur[1].iter.a.val = Val_Int(0)
    /\ cur[1].iter.b.val = Val_Int(2)
    /\ Len(cur[1].block.asts) = 2
    /\ Len(Children(log, 1)) = 7
    /\ ret = Ok(None)

\* `x = x op e` for the node `x op= e`
Desugar(node) ==
    AstAssign("Assign", node.id,
              Ast2(CASE node.typ = "AddAssign" -> "Add"
                     [] node.typ = "SubAssign" -> "Sub"
                     [] node.typ = "MulAssign" -> "Mul"
                     [] node.typ = "DivAssign" -> "Div",
                   AstIdent(node.id.ident, node.id.range), node.a,
                   CRange(node.id.range.start, node.a.range.end)),
              node.range)

\* the same outcome; of the error of an assignment to a `val` the name
SameOutcome(o, d) ==
    IF o.st = "err" /\ o.err.e = "ImmutableAssign"
    THEN d.st = "err" /\ d.err.e = "ImmutableAssign" /\ d.err.name = o.err.name
    ELSE o = d

\* C30: `x op= e` with op one of +, -, *, / does what `x = x op e` does, x
\* read before e is evaluated: the same outcome, the same variables and
\* the same output.  When it succeeds it is Unit; when the reading of x,
\* the evaluation of e or the operation fails, x is what it was.
C30_CompoundAssign ==
    \A i \in Enters(log) :
        log[i].node.typ \in OpAssignTypes =>
            LET x == MatchExit(log, i)
                k == Holder(log, i, log[i].node.id.ident)
                same(d) ==
                    /\ SameOutcome(log[x].out, d.out)
                    /\ log[x].scopes = d.ctx.scopes
                    /\ log[x].stdout = d.ctx.stdout
            IN  /\ same(eval_ast(Desugar(log[i].node),
                                 Context(log[i].scopes, log[i].stdout, <<>>)))
                /\ log[x].out.st = "ok" => log[x].out = Ok(ReturnUnit(log[i].node.range))
                /\ (log[x].out.st = "err" /\ k # 0) =>
                        log[x].scopes[k].vars[log[i].node.id.ident]
                            = log[i].scopes[k].vars[log[i].node.id.ident]

\* the characters of the text whose bytes are those of the span
ByteStart(text, k) == ByteLen(SubSeq(text, 1, k - 1))
InSpan(text, r) ==
    {k \in DOMAIN text :
        r.start <= ByteStart(text, k) /\ ByteStart(text, k) + Utf8Len(text[k]) <= r.end}
Slice(text, r) ==
    IF InSpan(text, r) = {} THEN <<>>
    ELSE SubSeq(text, CHOOSE k \in InSpan(text, r) : \A j \in InSpan(text, r) : k <= j,
                CHOOSE k \in InSpan(text, r) : \A j \in InSpan(text, r) : j <= k)

\* the characters are what the token is written as
Spells(tok, chars) ==
    CASE tok.t = "expr" /\ tok.expr.typ = "Int" ->
            /\ chars # <<>>
            /\ \A k \in DOMAIN chars : chars[k] \in Digits
            /\ Decimal(chars, 0) = tok.expr.i
      [] tok.t = "expr" /\ tok.expr.typ = "Float" ->
            /\ chars # <<>>
            /\ \A k \in DOMAIN chars : chars[k] \in Digits
            /\ i128_as_f64(Decimal(chars, 0)) = tok.expr.f
      [] tok.t = "expr" /\ tok.expr.typ = "Ident" -> Text(chars) = tok.expr.id
      [] tok.t = "expr" /\ tok.expr.typ = "Str" -> Text(chars) = "\"" \o tok.expr.s \o "\""
      [] tok.t = "op" /\ tok.op = "Sub" -> chars \in {<<"-">>, <<"U+2212">>}
      [] tok.t = "op" /\ tok.op = "SubAssign" -> chars \in {<<"-", "=">>, <<"U+2212", "=">>}
      [] tok.t = "op" /\ tok.op = "Assign" -> chars = <<"=">>
      [] tok.t = "op" /\ tok.op = "Eq" -> chars = <<"=", "=">>
      [] tok.t = "op" /\ tok.op = "Add" -> chars = <<"+">>
      [] tok.t = "par" /\ tok.par = "RoundOpen" -> chars = <<"(">>
      [] tok.t = "par" /\ tok.par = "RoundClose" -> chars = <<")">>
      [] tok.t = "par" /\ tok.par = "CurlyClose" -> chars = <<"}">>
      [] OTHER -> FALSE

\* C24: the span of every token of lex is the bytes of the text the token
\* was made of, [start, end) with start < end, also for a literal that a
\* two-character operator follows and after a character of several
\* bytes; the spans of the tokens follow each other without overlap.
C24_TokenSpans ==
    (fn = "lex" /\ out.st = "ok") =>
        \A k \in DOMAIN out.v :
            /\ out.v[k].range.start < out.v[k].range.end
            /\ out.v[k].range.end <= ByteLen(args.text)
            /\ Spells(out.v[k], Slice(args.text, out.v[k].range))
            /\ ByteLen(Slice(args.text, out.v[k].range))
                    = out.v[k].range.end - out.v[k].range.start
            /\ k < Len(out.v) => out.v[k].range.end <= out.v[k + 1].range.start

\* the numbers of the functions that the calls of asts reach
RECURSIVE Reached(_, _, _)
Reached(funs, found, n) ==
    IF n = 0 THEN found
    ELSE Reached(funs,
                 found \cup UNION {{funs[i][1].block[k].fun : k \in DOMAIN funs[i][1].block}
                                    : i \in {j \in found : funs[j] # <<>>}},
                 n - 1)
ReachedFrom(asts, funs) == Reached(funs, {asts[k].fun : k \in DOMAIN asts}, Len(funs))

\* the names of the functions of the items, and the names they call
Declared(items) == {items[k].name : k \in {j \in DOMAIN items : items[j].typ = "FunDef"}}
Called(items) ==
    {items[k].name : k \in {j \in DOMAIN items : items[j].typ = "FunCall"}}
    \cup ({items[k].calls : k \in {j \in DOMAIN items : items[j].typ = "FunDef"}} \ {"none"})
DeclaredOnce(items) ==
    \A j, k \in DOMAIN items :
        (items[j].typ = "FunDef" /\ items[k].typ = "FunDef" /\ items[j].name = items[k].name)
            => j = k

\* C23: every Fun is initialised exactly once.  The check of a block binds
\* the headers of all its functions first and installs each body once on
\* the second pass: neither Fun::init nor Fun::get fails, in the checked
\* statements every Fun that a FunCall reaches is initialised, and a block
\* whose calls are of functions that it declares once is checked without
\* an error, also when a function calls itself or a function declared
\* later in the block.
C23_FunInitOnce ==
    /\ fn \in {"check_funs", "eval_funs"} => out.st # "panic"
    /\ (fn = "check_funs" /\ out.st = "ok") =>
            /\ \A i \in ReachedFrom(out.v.asts, out.v.funs) : out.v.funs[i] # <<>>
            /\ \A i \in DOMAIN out.v.funs : out.v.funs[i] # <<>>
    /\ (fn = "check_funs" /\ DeclaredOnce(args.items)
            /\ Called(args.items) \subseteq Declared(args.items)) => out.st = "ok"

\* a function that calls a function declared after it was called
C23_Witness ==
    /\ fn = "eval_funs"
    /\ out.st = "ok"
    /\ \E i, j, k \in DOMAIN args.items :
        /\ i < j
        /\ args.items[i].typ = "FunDef"
        /\ args.items[j].typ = "FunDef"
        /\ args.items[i].calls = args.items[j].name
        /\ args.items[k].typ = "FunCall"
        /\ args.items[k].name = args.items[i].name

\* C21: when the lexer, the grouper and the parser end without a fatal
\* error and the Context holds recoverable errors, parse_and_eval returns
\* the one recorded first and evaluates nothing: the output and the
\* variables stay as they were.  When a stage ends with a fatal error,
\* parse_and_eval returns it, also after recoverable errors.
C21_FirstError ==
    [][fn' = "parse_and_eval" =>
        LET fatal(o) == o.st # "ok" => out' = o
            first(o, recorded) ==
                (o.st = "ok" /\ recorded # <<>>) =>
                    /\ out' = Err(recorded[1])
                    /\ scopes' = scopes
                    /\ stdout' = stdout
        IN  /\ fatal(parse_str(args'.text))
            /\ first(parse_str(args'.text), errors \o lex_all(args'.text).ctx.errors)]_vars

\* the wrong escape of `val x = "\q"` was returned, and x is not defined
C21_Witness ==
    /\ fn = "parse_and_eval"
    /\ args.text = SrcVal(SrcBad)
    /\ out = Err(Error1("InvalidEscape", CRange(9, 11)))
    /\ scopes = <<Scope_default>>

\* the fatal error of `"\q" -` was returned after the wrong escape
C21_FatalWitness ==
    /\ fn = "parse_and_eval"
    /\ args.text = SrcBad \o <<" ", "-">>
    /\ out.st = "err"
    /\ out.err.e = "MissingOperand"
    /\ errors # <<>>

\* C25: what parse_and_eval returns does not depend on the errors that
\* earlier calls recorded in the Context: a call whose source is lexed,
\* parsed and evaluated without an error returns Ok, never an error that
\* an earlier call left in Context.errors.
C25_NoLeftover ==
    [][(/\ fn' = "parse_and_eval"
        /\ lex_all(args'.text).ctx.errors = <<>>
        /\ parse_and_eval(args'.text, PContext(scopes, stdout, <<>>)).out.st = "ok")
            => out'.st = "ok"]_vars

====
